---- MODULE Spec2Model ----
(***************************************************************************)
(* A model of the file-information inspector (src/src/main.rs): subject    *)
(* windows that describe one identifier through an asynchronous query,     *)
(* backlink windows, and the helper functions they use.                    *)
(*                                                                         *)
(* Strings are TLA+ strings, read character by character with SubSeq, so   *)
(* that the label formatter, the truncator and the URI parser work on      *)
(* characters as the code does.                                            *)
(***************************************************************************)
EXTENDS Naturals, Integers, Sequences, FiniteSets, TLC

\* ---------------------------------------------------------------- strings

\* The empty string.
EmptyStr == ""

\* main.rs:15
XSD_DATETYPE == "http://www.w3.org/2001/XMLSchema#dateType"

\* main.rs:16
RDF_TYPE == "http://www.w3.org/1999/02/22-rdf-syntax-ns#type"

\* main.rs:20
FILEDATAOBJECT == "http://tracker.api.gnome.org/ontology/v3/nfo#FileDataObject"

\* The characters a..b of s, the empty string when there are none.
Slice(s, a, b) == IF a > b THEN "" ELSE SubSeq(s, a, b)

\* The i-th character of s, a string of length one.
Ch(s, i) == SubSeq(s, i, i)

LowerLetters == "abcdefghijklmnopqrstuvwxyz"

UpperLetters == "ABCDEFGHIJKLMNOPQRSTUVWXYZ"

DigitSeq == "0123456789"

UpperSet == {Ch(UpperLetters, i) : i \in 1..26}

LowerSet == {Ch(LowerLetters, i) : i \in 1..26}

DigitSet == {Ch(DigitSeq, i) : i \in 1..10}

\* The upper-case letter of each lower-case letter, and the converse.
UpperOf ==
    [c \in LowerSet |-> Ch(UpperLetters, CHOOSE i \in 1..26 : Ch(LowerLetters, i) = c)]

LowerOf ==
    [c \in UpperSet |-> Ch(LowerLetters, CHOOSE i \in 1..26 : Ch(UpperLetters, i) = c)]

\* char::is_uppercase, on the letters of the model's alphabet.
is_uppercase(c) == c \in UpperSet

is_lowercase(c) == c \in LowerSet

\* char::to_uppercase: the upper-case mapping of one character, a string.
to_uppercase(c) == IF is_lowercase(c) THEN UpperOf[c] ELSE c

\* char::to_ascii_lowercase, used by the URL parser on the scheme.
to_lowercase(c) == IF is_uppercase(c) THEN LowerOf[c] ELSE c

RECURSIVE MapLower(_)
MapLower(s) ==
    IF s = "" THEN "" ELSE to_lowercase(Head(s)) \o MapLower(Tail(s))

\* Whether character c occurs in s.
Contains(s, c) == \E i \in 1..Len(s) : Ch(s, i) = c

IsSeparator(c) == c \in {"#", "/"}

\* A faulty trim, which drops one trailing separator only.
trim_end_matches_once(s) ==
    IF Len(s) > 0 /\ IsSeparator(Ch(s, Len(s)))
    THEN Slice(s, 1, Len(s) - 1)
    ELSE s

\* str::trim_end_matches(&['#', '/']): drop every trailing '#' or '/'.
RECURSIVE trim_end_matches(_)
trim_end_matches(s) ==
    IF Len(s) > 0 /\ IsSeparator(Ch(s, Len(s)))
    THEN trim_end_matches(Slice(s, 1, Len(s) - 1))
    ELSE s

\* str::rsplit(&['#', '/']).next(): what follows the last separator, or the
\* whole string when it has none.
rsplit_first(s) ==
    LET seps == {i \in 1..Len(s) : IsSeparator(Ch(s, i))}
    IN  IF seps = {} THEN s
        ELSE LET last == CHOOSE i \in seps : \A j \in seps : j <= i
             IN  Slice(s, last + 1, Len(s))

\* A faulty word loop, which starts a new word before every upper-case
\* character, the first one included.
RECURSIVE split_words_any(_, _, _, _)
split_words_any(s, i, words, cur) ==
    IF i > Len(s)
    THEN IF cur # "" THEN Append(words, cur) ELSE words
    ELSE IF is_uppercase(Ch(s, i))
         THEN split_words_any(s, i + 1, Append(words, cur), Ch(s, i))
         ELSE split_words_any(s, i + 1, words, cur \o Ch(s, i))

\* The word loop of friendly_label: a new word starts before an upper-case
\* character when the current word is not empty.
RECURSIVE split_words(_, _, _, _)
split_words(s, i, words, cur) ==
    IF i > Len(s)
    THEN IF cur # "" THEN Append(words, cur) ELSE words
    ELSE IF is_uppercase(Ch(s, i)) /\ cur # ""
         THEN split_words(s, i + 1, Append(words, cur), Ch(s, i))
         ELSE split_words(s, i + 1, words, cur \o Ch(s, i))

\* The closure mapped over the words: first character upper-cased, the rest kept.
capitalize(w) ==
    IF w = "" THEN "" ELSE to_uppercase(Head(w)) \o Tail(w)

\* [String]::join(" ")
RECURSIVE join_space(_)
join_space(ws) ==
    IF ws = <<>> THEN ""
    ELSE IF Len(ws) = 1 THEN ws[1]
    ELSE ws[1] \o " " \o join_space(Tail(ws))

friendly_label(uri) ==
    LET trimmed == trim_end_matches(uri)
        last == rsplit_first(trimmed)
        words == split_words(last, 1, <<>>, "")
    IN  join_space([i \in 1..Len(words) |-> capitalize(words[i])])

\* ------------------------------------------------------------ value formatter

IsDigit(c) == c \in DigitSet

DigitVal(c) == (CHOOSE n \in 1..10 : Ch(DigitSeq, n) = c) - 1

Num2(s, i) == 10 * DigitVal(Ch(s, i)) + DigitVal(Ch(s, i + 1))

DaysInMonth(y, m) ==
    IF m \in {4, 6, 9, 11} THEN 30
    ELSE IF m = 2
         THEN IF (y % 4 = 0 /\ y % 100 # 0) \/ y % 400 = 0 THEN 29 ELSE 28
         ELSE 31

\* The text of the digits of n in w places, zero-padded.
RECURSIVE Pad(_, _)
Pad(n, w) ==
    IF w = 0 THEN "" ELSE Pad(n \div 10, w - 1) \o Ch(DigitSeq, (n % 10) + 1)

\* Are the characters of s at the positions ps all digits?
DigitsAt(s, ps) == \A i \in ps : IsDigit(Ch(s, i))

NoDateTime ==
    [ok |-> FALSE, y |-> 0, m |-> 0, d |-> 0, h |-> 0, mi |-> 0, sec |-> 0,
     off |-> 0]

\* The time-zone designator at the end of s, from position 20: "Z" or
\* "+hh:mm" / "-hh:mm".  ok is FALSE when there is none: with no default time
\* zone from_iso8601 then fails.
iso8601_timezone(s) ==
    IF Len(s) = 20 /\ Ch(s, 20) = "Z" THEN [ok |-> TRUE, off |-> 0]
    ELSE IF /\ Len(s) = 25
            /\ Ch(s, 20) \in {"+", "-"}
            /\ DigitsAt(s, {21, 22, 24, 25})
            /\ Ch(s, 23) = ":"
            /\ Num2(s, 21) < 24 /\ Num2(s, 24) < 60
    THEN LET mins == 60 * Num2(s, 21) + Num2(s, 24)
         IN  [ok |-> TRUE, off |-> IF Ch(s, 20) = "-" THEN 0 - mins ELSE mins]
    ELSE [ok |-> FALSE, off |-> 0]

\* glib::DateTime::from_iso8601(obj, None) on the extended calendar form
\* "YYYY-MM-DD<sep>hh:mm:ss<tz>": the separator is 'T', 't' or ' ', the
\* fields are in range, and the designator is required.  The value is the
\* date and time read, with the offset of its zone in minutes.
from_iso8601(s) ==
    IF /\ Len(s) >= 19
       /\ DigitsAt(s, {1, 2, 3, 4, 6, 7, 9, 10, 12, 13, 15, 16, 18, 19})
       /\ Ch(s, 5) = "-" /\ Ch(s, 8) = "-"
       /\ Ch(s, 11) \in {"T", "t", " "}
       /\ Ch(s, 14) = ":" /\ Ch(s, 17) = ":"
    THEN LET y == 100 * Num2(s, 1) + Num2(s, 3)
             m == Num2(s, 6)
             d == Num2(s, 9)
             tz == iso8601_timezone(s)
         IN  IF /\ tz.ok
                /\ y >= 1
                /\ m \in 1..12
                /\ d >= 1 /\ d <= DaysInMonth(y, m)
                /\ Num2(s, 12) < 24 /\ Num2(s, 15) < 60 /\ Num2(s, 18) < 60
             THEN [ok |-> TRUE, y |-> y, m |-> m, d |-> d, h |-> Num2(s, 12),
                   mi |-> Num2(s, 15), sec |-> Num2(s, 18), off |-> tz.off]
             ELSE NoDateTime
    ELSE NoDateTime

iso8601_parses(s) == from_iso8601(s).ok

\* The calendar date k days after (k < 0: before) the date dt.
RECURSIVE AddDays(_, _)
AddDays(dt, k) ==
    IF k = 0 THEN dt
    ELSE IF k > 0
    THEN AddDays(IF dt.d < DaysInMonth(dt.y, dt.m)
                 THEN [dt EXCEPT !.d = @ + 1]
                 ELSE IF dt.m < 12 THEN [dt EXCEPT !.d = 1, !.m = @ + 1]
                 ELSE [dt EXCEPT !.d = 1, !.m = 1, !.y = @ + 1],
                 k - 1)
    ELSE AddDays(IF dt.d > 1 THEN [dt EXCEPT !.d = @ - 1]
                 ELSE IF dt.m > 1
                 THEN [dt EXCEPT !.d = DaysInMonth(dt.y, dt.m - 1), !.m = @ - 1]
                 ELSE [dt EXCEPT !.d = 31, !.m = 12, !.y = @ - 1],
                 k + 1)

\* DateTime::to_local for a local zone tz minutes east of UTC: the same
\* instant on the local clock; it fails when the year leaves 1..9999.
to_local(dt, tz) ==
    LET mins == 60 * dt.h + dt.mi + (tz - dt.off)
        day == mins \div 1440
        rest == mins % 1440
        moved == AddDays(dt, day)
        out == [moved EXCEPT !.h = rest \div 60, !.mi = rest % 60, !.off = tz]
    IN  IF out.y \in 1..9999 THEN out ELSE NoDateTime

\* A faulty format, which ends its text with the designator of UTC.
format_designator(dt) ==
    Pad(dt.y, 4) \o "-" \o Pad(dt.m, 2) \o "-" \o Pad(dt.d, 2) \o " "
        \o Pad(dt.h, 2) \o ":" \o Pad(dt.mi, 2) \o ":" \o Pad(dt.sec, 2) \o "Z"

\* DateTime::format("%F %T"): the date, a space, the time, no designator.
format(dt) ==
    Pad(dt.y, 4) \o "-" \o Pad(dt.m, 2) \o "-" \o Pad(dt.d, 2) \o " "
        \o Pad(dt.h, 2) \o ":" \o Pad(dt.mi, 2) \o ":" \o Pad(dt.sec, 2)

\* The chain from_iso8601(obj, None).and_then(to_local).and_then(format) in
\* a local zone tz minutes east of UTC.
format_local(s, tz) ==
    LET dt == from_iso8601(s)
        ldt == IF dt.ok THEN to_local(dt, tz) ELSE NoDateTime
    IN  IF ldt.ok THEN [ok |-> TRUE, text |-> format(ldt)]
        ELSE [ok |-> FALSE, text |-> ""]

\* A faulty formatter, which shows nothing for a date it cannot format.
friendly_value_strict(obj, dtype, tz) ==
    IF dtype = XSD_DATETYPE
    THEN LET r == format_local(obj, tz)
         IN  IF r.ok THEN r.text ELSE EmptyStr
    ELSE obj

\* A faulty formatter, which formats the parsed time in UTC and not in the
\* local zone.
friendly_value_utc(obj, dtype, tz) ==
    IF dtype = XSD_DATETYPE
    THEN LET r == format_local(obj, 0)
         IN  IF r.ok THEN r.text ELSE obj
    ELSE obj

\* friendly_value(obj, dtype), in a process whose local zone is tz minutes
\* east of UTC.
friendly_value(obj, dtype, tz) ==
    IF dtype = XSD_DATETYPE
    THEN LET r == format_local(obj, tz)
         IN  IF r.ok THEN r.text ELSE obj
    ELSE obj

\* ------------------------------------------------------------------ URIs

\* Option::None, and a grid position that holds no widget.
NoValue == "<none>"

IsAlpha(c) == is_uppercase(c) \/ is_lowercase(c)

IsSchemeChar(c) == IsAlpha(c) \/ IsDigit(c) \/ c \in {"+", "-", "."}

\* Position of the first ':' of s, or 0.
FirstColon(s) ==
    LET cs == {i \in 1..Len(s) : Ch(s, i) = ":"}
    IN  IF cs = {} THEN 0 ELSE CHOOSE i \in cs : \A j \in cs : i <= j

RECURSIVE SkipSlashes(_)
SkipSlashes(s) ==
    IF Len(s) > 0 /\ Head(s) = "/" THEN SkipSlashes(Tail(s)) ELSE s

\* The host of an authority: what precedes the first '/', '?' or '#'.
HostOf(s) ==
    LET es == {i \in 1..Len(s) : Ch(s, i) \in {"/", "?", "#"}}
    IN  IF es = {} THEN s
        ELSE Slice(s, 1, (CHOOSE i \in es : \A j \in es : i <= j) - 1)

SpecialSchemes == {"http", "https", "ws", "wss", "ftp", "file"}

\* url::Url::parse: an absolute URL needs a scheme (a letter, then letters,
\* digits, '+', '-', '.', up to a ':'); a special scheme other than file needs
\* a non-empty host without spaces.  [ok, scheme, host]
url_parse(s) ==
    LET c == FirstColon(s)
        bad == [ok |-> FALSE, scheme |-> "", host |-> ""]
    IN  IF c <= 1 \/ ~IsAlpha(Ch(s, 1)) \/ \E i \in 1..(c - 1) : ~IsSchemeChar(Ch(s, i))
        THEN bad
        ELSE LET scheme == MapLower(SubSeq(s, 1, c - 1))
                 rest == Slice(s, c + 1, Len(s))
             IN  IF scheme = "file"
                 THEN [ok |-> TRUE, scheme |-> scheme,
                       host |-> IF Len(rest) >= 2 /\ SubSeq(rest, 1, 2) = "//"
                                THEN HostOf(Slice(rest, 3, Len(rest)))
                                ELSE ""]
                 ELSE IF scheme \in SpecialSchemes
                 THEN LET host == HostOf(SkipSlashes(rest))
                      IN  IF host = "" \/ Contains(host, " ")
                          THEN bad
                          ELSE [ok |-> TRUE, scheme |-> scheme, host |-> host]
                 ELSE [ok |-> TRUE, scheme |-> scheme, host |-> ""]

looks_like_uri(s) == url_parse(s).ok

\* Url::to_file_path succeeds for an empty host or "localhost".
to_file_path_ok(u) == u.host \in {"", "localhost"}

\* get_indexed_content_type, on the answer of the store: the connection or
\* the query may fail, the cursor may hold no row, or a row with a content
\* type that may be empty.  NoValue is None.
get_indexed_content_type(ans) ==
    IF ans.kind \in {"conn_error", "query_error", "no_row"} THEN NoValue
    ELSE IF ans.ct = "" THEN NoValue ELSE ans.ct

\* Ok(()), after consulting the services in asked.
HandlerOk(asked) ==
    [ok |-> TRUE, kind |-> "ok", name |-> NoValue, msg |-> "",
     consulted |-> asked]

\* Err(message): no default application for the content type or the scheme
\* called name.
HandlerErr(k, name, asked) ==
    [ok |-> FALSE, kind |-> k, name |-> name,
     msg |-> "No application available for " \o k \o " \"" \o name \o "\".",
     consulted |-> asked]

\* A faulty check, which asks the registry of schemes about a string that
\* does not parse and fails when it has no answer.
uri_has_handler_strict(uri, e) ==
    LET url == url_parse(uri)
    IN  IF ~url.ok
        THEN IF uri \notin e.schemeApps
             THEN HandlerErr("scheme", uri, {"schemes"})
             ELSE HandlerOk({"schemes"})
        ELSE IF url.scheme = "file"
        THEN IF ~to_file_path_ok(url) THEN HandlerOk({})
             ELSE LET idx == get_indexed_content_type(e.index)
                      mime == IF idx # NoValue THEN idx ELSE e.guess
                      asked == IF idx # NoValue THEN {"index", "types"}
                               ELSE {"index", "guess", "types"}
                  IN  IF mime \notin e.typeApps
                      THEN HandlerErr("type", mime, asked)
                      ELSE HandlerOk(asked)
        ELSE IF url.scheme \notin e.schemeApps
        THEN HandlerErr("scheme", url.scheme, {"schemes"})
        ELSE HandlerOk({"schemes"})

\* A faulty check, which takes every scheme other than file to have an
\* application.
uri_has_handler_any_scheme(uri, e) ==
    LET url == url_parse(uri)
    IN  IF ~url.ok THEN HandlerOk({})
        ELSE IF url.scheme = "file"
        THEN IF ~to_file_path_ok(url) THEN HandlerOk({})
             ELSE LET idx == get_indexed_content_type(e.index)
                      mime == IF idx # NoValue THEN idx ELSE e.guess
                      asked == IF idx # NoValue THEN {"index", "types"}
                               ELSE {"index", "guess", "types"}
                  IN  IF mime \notin e.typeApps
                      THEN HandlerErr("type", mime, asked)
                      ELSE HandlerOk(asked)
        ELSE HandlerOk({"schemes"})

\* uri_has_handler(uri) in an environment e: the store's answer to the
\* content-type lookup (e.index), gio's guess for the path (e.guess), the
\* content types and the schemes that have a default application.  The
\* result also names the services the call consulted: the store's index,
\* gio's content-type guess, and the registry of default applications for
\* content types and for schemes.
uri_has_handler(uri, e) ==
    LET url == url_parse(uri)
    IN  IF ~url.ok THEN HandlerOk({})
        ELSE IF url.scheme = "file"
        THEN IF ~to_file_path_ok(url) THEN HandlerOk({})
             ELSE LET idx == get_indexed_content_type(e.index)
                      mime == IF idx # NoValue THEN idx ELSE e.guess
                      asked == IF idx # NoValue THEN {"index", "types"}
                               ELSE {"index", "guess", "types"}
                  IN  IF mime \notin e.typeApps
                      THEN HandlerErr("type", mime, asked)
                      ELSE HandlerOk(asked)
        ELSE IF url.scheme \notin e.schemeApps
        THEN HandlerErr("scheme", url.scheme, {"schemes"})
        ELSE HandlerOk({"schemes"})

\* --------------------------------------------------------------- ellipsize

\* A Rust string is here the sequence of its chars (Unicode scalar values).
\* The char U+2026, which ellipsize pushes.
ELLIPSIS == 8230

\* The bytes of a char in UTF-8.
len_utf8(ch) ==
    IF ch < 128 THEN 1 ELSE IF ch < 2048 THEN 2 ELSE IF ch < 65536 THEN 3 ELSE 4

\* A faulty loop, which counts the bytes of the chars it pushes.
RECURSIVE ellipsize_loop_bytes(_, _, _, _, _)
ellipsize_loop_bytes(s, max_chars, i, count, result) ==
    IF i > Len(s) THEN [count |-> count, result |-> result]
    ELSE IF count >= max_chars
    THEN [count |-> count, result |-> Append(result, ELLIPSIS)]
    ELSE ellipsize_loop_bytes(s, max_chars, i + 1, count + len_utf8(s[i]),
                              Append(result, s[i]))

\* A faulty loop, which stops one char late.
RECURSIVE ellipsize_loop_late(_, _, _, _, _)
ellipsize_loop_late(s, max_chars, i, count, result) ==
    IF i > Len(s) THEN [count |-> count, result |-> result]
    ELSE IF count > max_chars
    THEN [count |-> count, result |-> Append(result, ELLIPSIS)]
    ELSE ellipsize_loop_late(s, max_chars, i + 1, count + 1,
                             Append(result, s[i]))

\* The for loop of ellipsize from the i-th char of s: count and result when
\* it ends or breaks.
RECURSIVE ellipsize_loop(_, _, _, _, _)
ellipsize_loop(s, max_chars, i, count, result) ==
    IF i > Len(s) THEN [count |-> count, result |-> result]
    ELSE IF count >= max_chars
    THEN [count |-> count, result |-> Append(result, ELLIPSIS)]
    ELSE ellipsize_loop(s, max_chars, i + 1, count + 1, Append(result, s[i]))

ellipsize(s, max_chars) ==
    LET r == ellipsize_loop(s, max_chars, 1, 0, <<>>)
    IN  IF r.count < Len(s) THEN r.result ELSE s

\* ------------------------------------------------------------------ markup

\* The entity glib::markup_escape_text writes for character c.
EscapeChar(c) ==
    IF c = "&" THEN "&amp;"
    ELSE IF c = "<" THEN "&lt;"
    ELSE IF c = ">" THEN "&gt;"
    ELSE IF c = "'" THEN "&#39;"
    ELSE IF c = "\"" THEN "&quot;"
    ELSE c

RECURSIVE escape_from(_, _, _)
escape_from(s, i, acc) ==
    IF i > Len(s) THEN acc ELSE escape_from(s, i + 1, acc \o EscapeChar(Ch(s, i)))

\* glib::markup_escape_text
markup_escape_text(s) == escape_from(s, 1, "")

HasPrefixAt(s, i, p) ==
    i + Len(p) - 1 <= Len(s) /\ SubSeq(s, i, i + Len(p) - 1) = p

\* The entity that starts at position i of s, or the character there.
EntityAt(s, i) ==
    IF HasPrefixAt(s, i, "&amp;") THEN [ch |-> "&", n |-> 5]
    ELSE IF HasPrefixAt(s, i, "&lt;") THEN [ch |-> "<", n |-> 4]
    ELSE IF HasPrefixAt(s, i, "&gt;") THEN [ch |-> ">", n |-> 4]
    ELSE IF HasPrefixAt(s, i, "&#39;") THEN [ch |-> "'", n |-> 5]
    ELSE IF HasPrefixAt(s, i, "&quot;") THEN [ch |-> "\"", n |-> 6]
    ELSE [ch |-> Ch(s, i), n |-> 1]

RECURSIVE unescape_from(_, _, _)
unescape_from(s, i, acc) ==
    IF i > Len(s) THEN acc
    ELSE IF Ch(s, i) # "&" THEN unescape_from(s, i + 1, acc \o Ch(s, i))
    ELSE unescape_from(s, i + EntityAt(s, i).n, acc \o EntityAt(s, i).ch)

\* The value of the href attribute as the markup parser hands it to
\* activate-link: entities replaced by their characters.
markup_unescape(s) == unescape_from(s, 1, "")

\* ------------------------------------------------------------------ bounds

\* Windows (inspection contexts) ever opened in one run.
MaxCtx == 3

\* Results the store's cursors deliver in one run, over all contexts.
MaxResults == 3

\* The chars of a string passed to ellipsize, and the largest max_chars.
MaxLen == 3

MaxChars == 4

\* The activations of open-uri in a run.
MaxActivations == 2

\* ------------------------------------------------------------ the universe

\* "Identifier"
IDENTIFIER == "Identifier"

\* What main() makes of the path argument "/a&b".
ID_FILE == "file:///a&b"

\* A string that is no URI.
ID_PLAIN == "n"

\* A node of the store whose scheme is not a special one.
ID_NODE == "urn:a&b"

\* A predicate.
P_NAME == "p/fileName"

\* A datatype that has no formatter.
DT_STRING == "xs:string"

\* The identifiers main() may be started with.
LaunchIds == {ID_FILE}

\* What a describe cursor may deliver: (predicate, value, datatype).
Triples ==
    {[pred |-> RDF_TYPE, obj |-> FILEDATAOBJECT, dtype |-> EmptyStr],
     [pred |-> RDF_TYPE, obj |-> ID_FILE, dtype |-> EmptyStr],
     [pred |-> P_NAME, obj |-> FILEDATAOBJECT, dtype |-> DT_STRING]}

\* What a backlink cursor may deliver: (subject, predicate).
Backlinks ==
    {[subj |-> ID_FILE, pred |-> P_NAME],
     [subj |-> ID_PLAIN, pred |-> RDF_TYPE]}

\* The environment of a run: the store's answer to the content-type lookup,
\* gio's guess, the registered default applications, and the local time
\* zone in minutes east of UTC.
Envs ==
    {[index |-> [kind |-> "row", ct |-> "application/pdf"],
      guess |-> "text/plain",
      typeApps |-> {"application/pdf"},
      schemeApps |-> {"http"},
      tz |-> 0]}

\* The identifiers and the environments of the runs that compare the two
\* places where the capability check decides what is offered.
ID_HTTP == "http://h/a"

ID_REMOTE == "file://remote/a"

ID_TEXT == "not a uri"

OpenIds == {ID_FILE, ID_PLAIN, ID_NODE, ID_HTTP, ID_REMOTE, ID_TEXT}

OpenEnvs ==
    {[index |-> ix, guess |-> "text/plain", typeApps |-> ta,
      schemeApps |-> sa, tz |-> 0] :
        ix \in {[kind |-> "conn_error", ct |-> ""], [kind |-> "no_row", ct |-> ""],
                [kind |-> "row", ct |-> ""],
                [kind |-> "row", ct |-> "application/pdf"]},
        ta \in {{}, {"application/pdf"}, {"text/plain"}},
        sa \in {{}, {"http"}}}

\* The values, datatypes and local zones of the runs that look at how
\* values are shown.
V_DATE_Z == "2024-06-04T12:34:56Z"

V_DATE_OFF == "2024-12-31T23:30:00-02:00"

V_DATE_END == "9999-12-31T23:59:59Z"

V_DATE_LOCAL == "2024-06-04 12:34:56"

V_INVALID == "invalid"

V_LINES == "a\nb"

DT_OTHER == "other"

Values == {V_DATE_Z, V_DATE_OFF, V_DATE_END, V_DATE_LOCAL, V_INVALID, V_LINES}

Datatypes == {EmptyStr, XSD_DATETYPE, DT_STRING, DT_OTHER}

Zones == {0, 120, 0 - 300}

\* What the describe cursor may deliver in these runs, all for one predicate.
ValueTriples ==
    {[pred |-> P_NAME, obj |-> t[1], dtype |-> t[2]] :
        t \in ({V_DATE_Z, V_DATE_OFF, V_DATE_END, V_DATE_LOCAL, V_INVALID,
                V_LINES} \X {XSD_DATETYPE})
              \cup ({V_DATE_Z, V_LINES} \X {EmptyStr, DT_STRING})}

ValueEnvs == {[e EXCEPT !.tz = z] : e \in Envs, z \in Zones}

\* The environments of the runs that call the helper functions.
FnEnvs ==
    {[index |-> ix, guess |-> "text/plain", typeApps |-> ta,
      schemeApps |-> sa, tz |-> z] :
        ix \in {[kind |-> "no_row", ct |-> ""],
                [kind |-> "row", ct |-> "application/pdf"]},
        ta \in {{}, {"application/pdf"}},
        sa \in {{}, {"http"}, {"http", "urn"}},
        z \in Zones}

\* The identifiers these runs pass to uri_has_handler.
ID_UPPER == "HTTP://H/b"

ID_UNKNOWN == "nosuchscheme://foo"

HandlerIds ==
    {ID_FILE, ID_PLAIN, ID_NODE, ID_HTTP, ID_REMOTE, ID_TEXT, ID_UPPER,
     ID_UNKNOWN, EmptyStr, V_DATE_Z}

\* The identifiers these runs pass to friendly_label: some identifiers, and
\* each of them followed by a run of separators.
LabelBases ==
    {EmptyStr, "https://example.com/FooBarBaz", "https://example.com",
     "FooBarBaz", "a#fileName", P_NAME, "ABc", "x/y#z", "nfo#FileDataObject",
     "/", "#/"}

SeparatorRuns == {"/", "#", "/#", "##/"}

LabelIds == LabelBases \cup {b \o t : b \in LabelBases, t \in SeparatorRuns}

\* The chars of the strings these runs pass to ellipsize: 'a' and U+00E9,
\* of one and two bytes.
Chars == {97, 233}

\* The values of the runs that copy the table: with the delimiter, with
\* quotes, with a line break, and a predicate with the delimiter.
V_COMMA == "a,b"

V_QUOTE == "say \"hi\""

P_COMMA == "u:a,b#fileName"

CopyTriples ==
    {[pred |-> P_NAME, obj |-> v, dtype |-> DT_STRING] :
        v \in {V_COMMA, V_QUOTE, V_LINES, ID_PLAIN}}
    \cup {[pred |-> P_COMMA, obj |-> V_QUOTE, dtype |-> EmptyStr]}

\* Every string a cursor may deliver or a window may inspect.
Words ==
    LaunchIds \cup {t.pred : t \in Triples} \cup {t.obj : t \in Triples}
        \cup {b.pred : b \in Backlinks} \cup {b.subj : b \in Backlinks}
        \cup OpenIds \cup Values
        \cup {t.pred : t \in CopyTriples} \cup {t.obj : t \in CopyTriples}

\* The helper functions on the strings of a run, evaluated once.
LabelOf == [w \in Words |-> friendly_label(w)]

EscapedOf == [w \in Words |-> markup_escape_text(w)]

UnescapedOf == [w \in {EscapedOf[v] : v \in Words} |-> markup_unescape(w)]

LooksLikeUri == [w \in Words |-> looks_like_uri(w)]

HasHandler ==
    [e \in Envs \cup OpenEnvs \cup ValueEnvs |->
        [w \in Words |-> uri_has_handler(w, e).ok]]

\* ------------------------------------------------------------------- state

VARIABLES
    nctx,                 \* windows opened so far; window c is the c-th opened
    env,                  \* the environment of the capability check
    kind,                 \* "none", "subject" (open_subject_window), "object"
    uri,                  \* the identifier a window inspects
    open,                 \* the window is presented and not closed
    pc,                   \* where the window's async task stands
    header,               \* text of header_label
    open_button,          \* the bottom bar holds the "Open" button
    grid,                 \* the grid's rows, top to bottom
    rows_vec,             \* populate_grid's local rows_vec
    order,                \* populate_grid's local order
    map,                  \* populate_grid's local map
    is_file_data_object,  \* populate_grid's local flag
    table_data,           \* the Rc<RefCell<Vec<TableRow>>> of the window
    dialogs,              \* the error dialogs shown for the window, in order
    stream,               \* what the window's cursor has delivered so far
    delivered,            \* results delivered by all cursors
    menu,                 \* the popover menu shown last, and the widget it is for
    probe,                \* the last call of a helper function: arguments, result
    clipboard,            \* the text on the clipboard
    activations           \* the activations of open-uri and what the launcher did

vars ==
    <<nctx, env, kind, uri, open, pc, header, open_button, grid, rows_vec,
      order, map, is_file_data_object, table_data, dialogs, stream,
      delivered, menu, probe, clipboard, activations>>

Ctx == 1..MaxCtx

EmptyMap == [p \in {} |-> <<>>]

\* No popover has been shown.
NoMenu == [ctx |-> 0, row |-> 0, items |-> <<>>]

\* No helper function has been called.
NoProbe == [fn |-> "none", args |-> <<>>, out |-> <<>>]

Init ==
    /\ nctx = 0
    /\ env \in Envs
    /\ kind = [c \in Ctx |-> "none"]
    /\ uri = [c \in Ctx |-> EmptyStr]
    /\ open = [c \in Ctx |-> FALSE]
    /\ pc = [c \in Ctx |-> "none"]
    /\ header = [c \in Ctx |-> ""]
    /\ open_button = [c \in Ctx |-> FALSE]
    /\ grid = [c \in Ctx |-> <<>>]
    /\ rows_vec = [c \in Ctx |-> <<>>]
    /\ order = [c \in Ctx |-> <<>>]
    /\ map = [c \in Ctx |-> EmptyMap]
    /\ is_file_data_object = [c \in Ctx |-> FALSE]
    /\ table_data = [c \in Ctx |-> <<>>]
    /\ dialogs = [c \in Ctx |-> <<>>]
    /\ stream = [c \in Ctx |-> <<>>]
    /\ delivered = 0
    /\ menu = NoMenu
    /\ probe = NoProbe
    /\ clipboard = NoValue
    /\ activations = <<>>

\* The windows whose describe has returned, and those where it returned
\* after the cursor loop rather than after a failure.
Described(c) == kind[c] = "subject" /\ pc[c] = "done"

DescribedOk(c) == Described(c) /\ dialogs[c] = <<>>

\* The application runs while it has a window; tasks spawned on the main
\* context are polled only while it runs.
AppRunning == \E c \in Ctx : open[c]

\* ------------------------------------------------------- populate_grid

TableRow(dp, np, dv, nv) ==
    [display_predicate |-> dp, native_predicate |-> np,
     display_value |-> dv, native_value |-> nv]

\* The first row pushed to rows_vec.
IdentifierRow(u) == TableRow(IDENTIFIER, IDENTIFIER, u, u)

\* A grid row: the text of the predicate label (NoValue when none is
\* attached) and the value widget: its kind, its text (for a link, the
\* escaped text that is both the href and the label of the markup) and the
\* native value its context menu holds.
Cell(key, k, text, native) ==
    [key |-> key, kind |-> k, text |-> text, native |-> native]

\* id_label and uri_label, attached at row 0.
IdentifierCell(u) == Cell(IDENTIFIER, "label", u, u)

\* A faulty return after a failure, which hands back the rows pushed so far.
ErrorReturn_partial(rv) == [is_file |-> FALSE, rows |-> rv]

\* The return value after a failed connection or a failed query.
ErrorReturn(rv) == [is_file |-> FALSE, rows |-> <<>>]

\* A faulty turn of the loop, which puts a new predicate in front of order.
FoldTriple_prepend(ord, mp, flag, t) ==
    LET seen == t.pred \in DOMAIN mp
        ord1 == IF seen THEN ord ELSE <<t.pred>> \o ord
        mp0 == IF seen THEN mp
               ELSE [p \in DOMAIN mp \cup {t.pred} |->
                        IF p = t.pred THEN <<>> ELSE mp[p]]
        mp1 == [mp0 EXCEPT ![t.pred] = Append(@, <<t.obj, t.dtype>>)]
        flag1 == IF t.pred = RDF_TYPE /\ t.obj = FILEDATAOBJECT
                 THEN TRUE ELSE flag
    IN  [order |-> ord1, map |-> mp1, flag |-> flag1]

\* A faulty turn of the loop, which assigns the flag on every triple.
FoldTriple_reset(ord, mp, flag, t) ==
    LET seen == t.pred \in DOMAIN mp
        ord1 == IF seen THEN ord ELSE Append(ord, t.pred)
        mp0 == IF seen THEN mp
               ELSE [p \in DOMAIN mp \cup {t.pred} |->
                        IF p = t.pred THEN <<>> ELSE mp[p]]
        mp1 == [mp0 EXCEPT ![t.pred] = Append(@, <<t.obj, t.dtype>>)]
        flag1 == t.pred = RDF_TYPE /\ t.obj = FILEDATAOBJECT
    IN  [order |-> ord1, map |-> mp1, flag |-> flag1]

\* A faulty fold, which puts the newest value of a predicate first.
FoldTriple_newest_first(ord, mp, flag, t) ==
    LET seen == t.pred \in DOMAIN mp
        ord1 == IF seen THEN ord ELSE Append(ord, t.pred)
        mp0 == IF seen THEN mp
               ELSE [p \in DOMAIN mp \cup {t.pred} |->
                        IF p = t.pred THEN <<>> ELSE mp[p]]
        mp1 == [mp0 EXCEPT ![t.pred] = <<<<t.obj, t.dtype>>>> \o @]
        flag1 == IF t.pred = RDF_TYPE /\ t.obj = FILEDATAOBJECT
                 THEN TRUE ELSE flag
    IN  [order |-> ord1, map |-> mp1, flag |-> flag1]

\* One turn of the cursor loop on the triple t.
FoldTriple(ord, mp, flag, t) ==
    LET seen == t.pred \in DOMAIN mp
        ord1 == IF seen THEN ord ELSE Append(ord, t.pred)
        mp0 == IF seen THEN mp
               ELSE [p \in DOMAIN mp \cup {t.pred} |->
                        IF p = t.pred THEN <<>> ELSE mp[p]]
        mp1 == [mp0 EXCEPT ![t.pred] = Append(@, <<t.obj, t.dtype>>)]
        flag1 == IF t.pred = RDF_TYPE /\ t.obj = FILEDATAOBJECT
                 THEN TRUE ELSE flag
    IN  [order |-> ord1, map |-> mp1, flag |-> flag1]

\* displayed_str of one entry.
DisplayedStr(obj, dtype) ==
    IF dtype = EmptyStr THEN obj ELSE friendly_value(obj, dtype, env.tz)

\* A faulty row, which like the grid names the predicate on the first entry
\* of a block only.
EntryRow_first_only(pred, i, obj, dtype) ==
    TableRow(IF i = 1 THEN LabelOf[pred] ELSE EmptyStr,
             IF i = 1 THEN pred ELSE EmptyStr,
             DisplayedStr(obj, dtype), obj)

\* The TableRow pushed for entry (obj, dtype) of predicate pred, the i-th of
\* its block.
EntryRow(pred, i, obj, dtype) ==
    TableRow(LabelOf[pred], pred, DisplayedStr(obj, dtype), obj)

\* A faulty choice of widget, which tests for a line break first.
EntryCell_break_first(pred, i, obj, dtype) ==
    LET key == IF i = 1 THEN LabelOf[pred] ELSE NoValue
        shown == DisplayedStr(obj, dtype)
    IN  IF Contains(obj, "\n")
        THEN Cell(key, "textview", shown, obj)
        ELSE IF dtype = EmptyStr
        THEN Cell(key, "link", EscapedOf[obj], obj)
        ELSE Cell(key, "label", shown, obj)

\* The widgets attached for entry (obj, dtype) of predicate pred: the label
\* of the predicate on the first entry only, and a link, a text view or a label.
EntryCell(pred, i, obj, dtype) ==
    LET key == IF i = 1 THEN LabelOf[pred] ELSE NoValue
        shown == DisplayedStr(obj, dtype)
    IN  IF dtype = EmptyStr
        THEN Cell(key, "link", EscapedOf[obj], obj)
        ELSE IF Contains(obj, "\n")
        THEN Cell(key, "textview", shown, obj)
        ELSE Cell(key, "label", shown, obj)

\* The rows pushed by the two nested loops, over order from its k-th predicate.
RECURSIVE BuildRows(_, _, _)
BuildRows(ord, mp, k) ==
    IF k > Len(ord) THEN <<>>
    ELSE LET pred == ord[k]
             entries == mp[pred]
         IN  [i \in 1..Len(entries) |->
                 EntryRow(pred, i, entries[i][1], entries[i][2])]
             \o BuildRows(ord, mp, k + 1)

RECURSIVE BuildCells(_, _, _)
BuildCells(ord, mp, k) ==
    IF k > Len(ord) THEN <<>>
    ELSE LET pred == ord[k]
             entries == mp[pred]
         IN  [i \in 1..Len(entries) |->
                 EntryCell(pred, i, entries[i][1], entries[i][2])]
             \o BuildCells(ord, mp, k + 1)

\* A faulty choice of the header text, which leaves the loading text in
\* place when the flag is false.
HeaderText_loading(flag) == IF flag THEN "File Information" ELSE "Loading..."

\* The text the async block of open_subject_window gives the header.
HeaderText(flag) == IF flag THEN "File Information" ELSE "Node Information"

\* The value table_data holds after the async block has cleared it and
\* extended it with the returned rows.
StoreRows(old, rows) == rows

\* A faulty tail of the async block, with one table_data for all windows.
Complete_shared(c, ret) ==
    /\ table_data' = [d \in Ctx |-> StoreRows(table_data[d], ret.rows)]
    /\ header' = [header EXCEPT ![c] = HeaderText(ret.is_file)]
    /\ pc' = [pc EXCEPT ![c] = "done"]

\* The tail of the async block: table_data replaced, header set.
Complete(c, ret) ==
    /\ table_data' = [table_data EXCEPT ![c] = StoreRows(@, ret.rows)]
    /\ header' = [header EXCEPT ![c] = HeaderText(ret.is_file)]
    /\ pc' = [pc EXCEPT ![c] = "done"]

\* ----------------------------------------------------------------- actions

\* open_subject_window(app, u, debug) for the new window c: the window is
\* built and presented with an empty grid and an empty table_data, and its
\* async block is spawned.
OpenSubjectWindow(c, u) ==
    /\ nctx' = c
    /\ kind' = [kind EXCEPT ![c] = "subject"]
    /\ uri' = [uri EXCEPT ![c] = u]
    /\ open' = [open EXCEPT ![c] = TRUE]
    /\ pc' = [pc EXCEPT ![c] = "spawned"]
    /\ header' = [header EXCEPT ![c] = "Loading..."]
    /\ open_button' = [open_button EXCEPT ![c] = HasHandler[env][u]]
    /\ grid' = [grid EXCEPT ![c] = <<>>]
    /\ table_data' = [table_data EXCEPT ![c] = <<>>]
    /\ UNCHANGED <<env, rows_vec, order, map, is_file_data_object, dialogs,
                   stream, delivered, menu, probe, clipboard, activations>>

\* main(): the command line (or the open signal) opens the first window.
Launch(u) ==
    /\ nctx = 0
    /\ OpenSubjectWindow(1, u)

\* A window takes the user's input once it is shown.  The handler that
\* builds a window also spawns its task, which the main context polls in
\* its next iteration, before the window is drawn: no input reaches a
\* window whose task has not been polled.
Presented(c) == open[c] /\ pc[c] # "spawned"

\* The "Close" button of a window.
Close(c) ==
    /\ Presented(c)
    /\ open' = [open EXCEPT ![c] = FALSE]
    /\ UNCHANGED <<nctx, env, kind, uri, pc, header, open_button, grid,
                   rows_vec, order, map, is_file_data_object, table_data,
                   dialogs, stream, delivered, menu, probe,
                   clipboard, activations>>

\* The target a link of the grid is activated with.
LinkTarget(cell) == UnescapedOf[cell.text]

\* A faulty activation, which shows a window for an identifier that was
\* inspected before with the rows of the earlier inspection.
ActivateLink_memo(c, r) ==
    /\ Presented(c)
    /\ nctx < MaxCtx
    /\ r \in 1..Len(grid[c])
    /\ grid[c][r].kind = "link"
    /\ LET n == nctx + 1
           u == LinkTarget(grid[c][r])
           old == {d \in 1..nctx : Described(d) /\ uri[d] = u}
       IN  IF old = {} THEN OpenSubjectWindow(n, u)
           ELSE LET d == CHOOSE x \in old : TRUE
                IN  /\ nctx' = n
                    /\ kind' = [kind EXCEPT ![n] = "subject"]
                    /\ uri' = [uri EXCEPT ![n] = u]
                    /\ open' = [open EXCEPT ![n] = TRUE]
                    /\ pc' = [pc EXCEPT ![n] = "done"]
                    /\ header' = [header EXCEPT ![n] = header[d]]
                    /\ open_button' = [open_button EXCEPT ![n] = open_button[d]]
                    /\ grid' = [grid EXCEPT ![n] = grid[d]]
                    /\ table_data' = [table_data EXCEPT ![n] = table_data[d]]
                    /\ UNCHANGED <<env, rows_vec, order, map,
                                   is_file_data_object, dialogs, stream,
                                   delivered, menu, probe,
                                   clipboard, activations>>

\* activate-link on the link of row r of window c.
ActivateLink(c, r) ==
    /\ Presented(c)
    /\ nctx < MaxCtx
    /\ r \in 1..Len(grid[c])
    /\ grid[c][r].kind = "link"
    /\ OpenSubjectWindow(nctx + 1, LinkTarget(grid[c][r]))

\* The "Backlinks" button of subject window p: open_object_window.
OpenObjectWindow(p) ==
    /\ Presented(p)
    /\ kind[p] = "subject"
    /\ nctx < MaxCtx
    /\ LET c == nctx + 1
       IN  /\ nctx' = c
           /\ kind' = [kind EXCEPT ![c] = "object"]
           /\ uri' = [uri EXCEPT ![c] = uri[p]]
           /\ open' = [open EXCEPT ![c] = TRUE]
           /\ pc' = [pc EXCEPT ![c] = "spawned"]
           /\ header' = [header EXCEPT ![c] = "Backlinks"]
           /\ grid' = [grid EXCEPT ![c] = <<>>]
    /\ UNCHANGED <<env, open_button, rows_vec, order, map,
                   is_file_data_object, table_data, dialogs, stream,
                   delivered, menu, probe, clipboard, activations>>

\* A faulty first poll, which hands the Identifier row to table_data as soon
\* as it is pushed.
DescribeStart_publish(c) ==
    /\ AppRunning
    /\ kind[c] = "subject" /\ pc[c] = "spawned"
    /\ grid' = [grid EXCEPT ![c] = <<IdentifierCell(uri[c])>>]
    /\ rows_vec' = [rows_vec EXCEPT ![c] = <<IdentifierRow(uri[c])>>]
    /\ table_data' = [table_data EXCEPT ![c] = <<IdentifierRow(uri[c])>>]
    /\ pc' = [pc EXCEPT ![c] = "query"]
    /\ UNCHANGED <<nctx, env, kind, uri, open, header, open_button, order,
                   map, is_file_data_object, dialogs, stream,
                   delivered, menu, probe, clipboard, activations>>

\* First poll of the async block of subject window c: populate_grid clears
\* the grid, attaches and records the Identifier row, connects to the store
\* and awaits the query.
DescribeStart(c) ==
    /\ AppRunning
    /\ kind[c] = "subject" /\ pc[c] = "spawned"
    /\ grid' = [grid EXCEPT ![c] = <<IdentifierCell(uri[c])>>]
    /\ rows_vec' = [rows_vec EXCEPT ![c] = <<IdentifierRow(uri[c])>>]
    /\ pc' = [pc EXCEPT ![c] = "query"]
    /\ UNCHANGED <<nctx, env, kind, uri, open, header, open_button, order,
                   map, is_file_data_object, table_data, dialogs, stream,
                   delivered, menu, probe, clipboard, activations>>

\* The same poll when create_store_connection fails: the dialog, the early
\* return (which drops the locals), and the rest of the async block.
DescribeConnectError(c) ==
    /\ AppRunning
    /\ kind[c] = "subject" /\ pc[c] = "spawned"
    /\ grid' = [grid EXCEPT ![c] = <<IdentifierCell(uri[c])>>]
    /\ dialogs' = [dialogs EXCEPT ![c] = Append(@, "Failed to connect to Tracker")]
    /\ Complete(c, ErrorReturn(<<IdentifierRow(uri[c])>>))
    /\ UNCHANGED <<nctx, env, kind, uri, open, open_button, rows_vec, order,
                   map, is_file_data_object, stream, delivered, menu, probe,
                   clipboard, activations>>

\* query_future resolves with a cursor; the task awaits its first row.
DescribeQueryOk(c) ==
    /\ AppRunning
    /\ kind[c] = "subject" /\ pc[c] = "query"
    /\ pc' = [pc EXCEPT ![c] = "next"]
    /\ UNCHANGED <<nctx, env, kind, uri, open, header, open_button, grid,
                   rows_vec, order, map, is_file_data_object, table_data,
                   dialogs, stream, delivered, menu, probe,
                   clipboard, activations>>

\* A faulty failure of the query, which reports the error in a row of the grid.
DescribeQueryError_row(c) ==
    /\ AppRunning
    /\ kind[c] = "subject" /\ pc[c] = "query"
    /\ dialogs' = [dialogs EXCEPT ![c] = Append(@, "SPARQL query error")]
    /\ grid' = [grid EXCEPT ![c] =
                   Append(@, Cell("Error", "label", "SPARQL query error", EmptyStr))]
    /\ Complete(c, ErrorReturn(rows_vec[c]))
    /\ rows_vec' = [rows_vec EXCEPT ![c] = <<>>]
    /\ UNCHANGED <<nctx, env, kind, uri, open, open_button, order, map,
                   is_file_data_object, stream, delivered, menu, probe,
                   clipboard, activations>>

\* query_future resolves with an error.
DescribeQueryError(c) ==
    /\ AppRunning
    /\ kind[c] = "subject" /\ pc[c] = "query"
    /\ dialogs' = [dialogs EXCEPT ![c] = Append(@, "SPARQL query error")]
    /\ Complete(c, ErrorReturn(rows_vec[c]))
    /\ rows_vec' = [rows_vec EXCEPT ![c] = <<>>]
    /\ UNCHANGED <<nctx, env, kind, uri, open, open_button, grid, order, map,
                   is_file_data_object, stream, delivered, menu, probe,
                   clipboard, activations>>

\* next_future resolves with Ok(true): one turn of the cursor loop.
DescribeNext(c, t) ==
    /\ AppRunning
    /\ kind[c] = "subject" /\ pc[c] = "next"
    /\ delivered < MaxResults
    /\ LET f == FoldTriple(order[c], map[c], is_file_data_object[c], t)
       IN  /\ order' = [order EXCEPT ![c] = f.order]
           /\ map' = [map EXCEPT ![c] = f.map]
           /\ is_file_data_object' = [is_file_data_object EXCEPT ![c] = f.flag]
    /\ stream' = [stream EXCEPT ![c] = Append(@, t)]
    /\ delivered' = delivered + 1
    /\ UNCHANGED <<nctx, env, kind, uri, open, pc, header, open_button, grid,
                   rows_vec, table_data, dialogs, menu, probe,
                   clipboard, activations>>

\* next_future resolves with Ok(false) or with an error: the loop ends, the
\* rows are built and attached, populate_grid returns (its locals are moved
\* out or dropped), the async block ends.
DescribeEnd(c) ==
    /\ AppRunning
    /\ kind[c] = "subject" /\ pc[c] = "next"
    /\ grid' = [grid EXCEPT ![c] = @ \o BuildCells(order[c], map[c], 1)]
    /\ Complete(c, [is_file |-> is_file_data_object[c],
                    rows |-> rows_vec[c] \o BuildRows(order[c], map[c], 1)])
    /\ rows_vec' = [rows_vec EXCEPT ![c] = <<>>]
    /\ order' = [order EXCEPT ![c] = <<>>]
    /\ map' = [map EXCEPT ![c] = EmptyMap]
    /\ is_file_data_object' = [is_file_data_object EXCEPT ![c] = FALSE]
    /\ UNCHANGED <<nctx, env, kind, uri, open, open_button, dialogs, stream,
                   delivered, menu, probe, clipboard, activations>>

\* ------------------------------------------------------ the Copy button

\* csv::Writer with the default settings: a field is quoted when it holds
\* the delimiter, a quote, a line feed or a carriage return, and a quote in
\* a quoted field is doubled.
needs_quotes(f) ==
    \E i \in 1..Len(f) : Ch(f, i) \in {",", "\"", "\n", "\r"}

RECURSIVE double_quotes(_, _, _)
double_quotes(f, i, acc) ==
    IF i > Len(f) THEN acc
    ELSE double_quotes(f, i + 1,
                       acc \o (IF Ch(f, i) = "\"" THEN "\"\"" ELSE Ch(f, i)))

\* A faulty writer, which quotes a field and leaves its quotes single.
write_field_single(f) ==
    IF needs_quotes(f) THEN "\"" \o f \o "\"" ELSE f

write_field(f) ==
    IF needs_quotes(f) THEN "\"" \o double_quotes(f, 1, "") \o "\"" ELSE f

\* Writer::write_record on four fields: the fields, delimited, and the
\* record terminator.
write_record(fs) ==
    write_field(fs[1]) \o "," \o write_field(fs[2]) \o ","
        \o write_field(fs[3]) \o "," \o write_field(fs[4]) \o "\n"

HeaderRecord ==
    <<"Display Predicate", "Native Predicate", "Display Value", "Native Value">>

RowRecord(r) ==
    <<r.display_predicate, r.native_predicate, r.display_value, r.native_value>>

\* A faulty loop, which leaves out the Identifier row.
RECURSIVE write_rows_triples(_, _, _)
write_rows_triples(rows, k, acc) ==
    IF k > Len(rows) THEN acc
    ELSE write_rows_triples(rows, k + 1,
             IF rows[k].native_predicate = IDENTIFIER THEN acc
             ELSE acc \o write_record(RowRecord(rows[k])))

\* The for loop over the rows, from the k-th.
RECURSIVE write_rows(_, _, _)
write_rows(rows, k, acc) ==
    IF k > Len(rows) THEN acc
    ELSE write_rows(rows, k + 1, acc \o write_record(RowRecord(rows[k])))

\* A click on "Copy" in subject window c: the header record, a record for
\* every row of table_data, and the text is set on the clipboard.
Copy(c) ==
    /\ Presented(c)
    /\ kind[c] = "subject"
    /\ clipboard' = write_rows(table_data[c], 1, write_record(HeaderRecord))
    /\ UNCHANGED <<nctx, env, kind, uri, open, pc, header, open_button, grid,
                   rows_vec, order, map, is_file_data_object, table_data,
                   dialogs, stream, delivered, menu, probe, activations>>

\* ------------------------------------------------- the open-uri action

\* The text of the dialog report(msg) shows.
Report(msg) == "Could not open URI: " \o msg

\* What launch_default_for_uri answers when it fails.
LAUNCH_ERROR == "launch failed"

\* A faulty handler, which reports a failed check and launches all the same.
ActivateOpenUri_unchecked(c, u, launch_ok) ==
    /\ Presented(c)
    /\ Len(activations) < MaxActivations
    /\ LET h == uri_has_handler(u, env)
           shown == (IF h.ok THEN <<>> ELSE <<Report(h.msg)>>)
                        \o (IF launch_ok THEN <<>> ELSE <<Report(LAUNCH_ERROR)>>)
       IN  /\ dialogs' = [dialogs EXCEPT ![c] = @ \o shown]
           /\ activations' =
                  Append(activations,
                         [ctx |-> c, uri |-> u, launched |-> <<launch_ok>>])
    /\ UNCHANGED <<nctx, env, kind, uri, open, pc, header, open_button, grid,
                   rows_vec, order, map, is_file_data_object, table_data,
                   stream, delivered, menu, probe, clipboard>>

\* An activation of open-uri in window c with the parameter u, where the
\* launcher, if it is invoked, succeeds or not: the record of the activation
\* holds the outcomes of the launcher's invocations.
ActivateOpenUri(c, u, launch_ok) ==
    /\ Presented(c)
    /\ Len(activations) < MaxActivations
    /\ LET h == uri_has_handler(u, env)
       IN  IF ~h.ok
           THEN /\ dialogs' = [dialogs EXCEPT ![c] = Append(@, Report(h.msg))]
                /\ activations' =
                       Append(activations,
                              [ctx |-> c, uri |-> u, launched |-> <<>>])
           ELSE /\ dialogs' = [dialogs EXCEPT ![c] =
                                   IF launch_ok THEN @
                                   ELSE Append(@, Report(LAUNCH_ERROR))]
                /\ activations' =
                       Append(activations,
                              [ctx |-> c, uri |-> u, launched |-> <<launch_ok>>])
    /\ UNCHANGED <<nctx, env, kind, uri, open, pc, header, open_button, grid,
                   rows_vec, order, map, is_file_data_object, table_data,
                   stream, delivered, menu, probe, clipboard>>

\* ------------------------------------------------------- add_copy_menu

MenuItem(label, action, target) ==
    [label |-> label, action |-> action, target |-> target]

\* The menu model the pressed handler of add_copy_menu builds.
add_copy_menu(displayed, native, disp_label, nat_label, e) ==
    <<MenuItem(disp_label, "win.copy-value", displayed),
      MenuItem(nat_label, "win.copy-value", native)>>
    \o (IF LooksLikeUri[native] /\ HasHandler[e][native]
        THEN <<MenuItem("Open Externally", "win.open-uri", native)>>
        ELSE <<>>)

\* The displayed value the menu of a value widget was given: displayed_str,
\* which for a link is the value itself.
CellDisplayed(cell) == IF cell.kind = "link" THEN cell.native ELSE cell.text

\* A right click on the value widget of row r of window c.
PressValue(c, r) ==
    /\ Presented(c)
    /\ r \in 1..Len(grid[c])
    /\ menu' = [ctx |-> c, row |-> r,
                items |-> add_copy_menu(CellDisplayed(grid[c][r]),
                                        grid[c][r].native,
                                        "Copy Displayed Value",
                                        "Copy Native Value", env)]
    /\ UNCHANGED <<nctx, env, kind, uri, open, pc, header, open_button, grid,
                   rows_vec, order, map, is_file_data_object, table_data,
                   dialogs, stream, delivered, probe, clipboard, activations>>

\* ------------------------------------------------ populate_backlinks_grid

\* A faulty choice of widget, which makes a link of a subject only when an
\* application can open it.
BacklinkCell_handler(b) ==
    IF LooksLikeUri[b.subj] /\ HasHandler[env][b.subj]
    THEN Cell(LabelOf[b.pred], "link", EscapedOf[b.subj], b.subj)
    ELSE Cell(LabelOf[b.pred], "label", b.subj, b.subj)

\* The widgets attached for one result: the subject as a link when it looks
\* like a URI and as a label otherwise, and the label of the predicate.
BacklinkCell(b) ==
    IF LooksLikeUri[b.subj]
    THEN Cell(LabelOf[b.pred], "link", EscapedOf[b.subj], b.subj)
    ELSE Cell(LabelOf[b.pred], "label", b.subj, b.subj)

\* First poll of the async block of object window c.
BacklinksStart(c) ==
    /\ AppRunning
    /\ kind[c] = "object" /\ pc[c] = "spawned"
    /\ grid' = [grid EXCEPT ![c] = <<>>]
    /\ pc' = [pc EXCEPT ![c] = "query"]
    /\ UNCHANGED <<nctx, env, kind, uri, open, header, open_button, rows_vec,
                   order, map, is_file_data_object, table_data, dialogs,
                   stream, delivered, menu, probe, clipboard, activations>>

BacklinksConnectError(c) ==
    /\ AppRunning
    /\ kind[c] = "object" /\ pc[c] = "spawned"
    /\ grid' = [grid EXCEPT ![c] = <<>>]
    /\ dialogs' = [dialogs EXCEPT ![c] = Append(@, "Failed to connect to Tracker")]
    /\ pc' = [pc EXCEPT ![c] = "done"]
    /\ UNCHANGED <<nctx, env, kind, uri, open, header, open_button, rows_vec,
                   order, map, is_file_data_object, table_data, stream,
                   delivered, menu, probe, clipboard, activations>>

BacklinksQueryOk(c) ==
    /\ AppRunning
    /\ kind[c] = "object" /\ pc[c] = "query"
    /\ pc' = [pc EXCEPT ![c] = "next"]
    /\ UNCHANGED <<nctx, env, kind, uri, open, header, open_button, grid,
                   rows_vec, order, map, is_file_data_object, table_data,
                   dialogs, stream, delivered, menu, probe,
                   clipboard, activations>>

BacklinksQueryError(c) ==
    /\ AppRunning
    /\ kind[c] = "object" /\ pc[c] = "query"
    /\ dialogs' = [dialogs EXCEPT ![c] = Append(@, "SPARQL query error")]
    /\ pc' = [pc EXCEPT ![c] = "done"]
    /\ UNCHANGED <<nctx, env, kind, uri, open, header, open_button, grid,
                   rows_vec, order, map, is_file_data_object, table_data,
                   stream, delivered, menu, probe, clipboard, activations>>

\* A faulty turn of the loop, which attaches no row for a result that has
\* one already.
BacklinksNext_distinct(c, b) ==
    /\ AppRunning
    /\ kind[c] = "object" /\ pc[c] = "next"
    /\ delivered < MaxResults
    /\ grid' = [grid EXCEPT ![c] =
                    IF \E k \in 1..Len(stream[c]) : stream[c][k] = b THEN @
                    ELSE Append(@, BacklinkCell(b))]
    /\ stream' = [stream EXCEPT ![c] = Append(@, b)]
    /\ delivered' = delivered + 1
    /\ UNCHANGED <<nctx, env, kind, uri, open, pc, header, open_button,
                   rows_vec, order, map, is_file_data_object, table_data,
                   dialogs, menu, probe, clipboard, activations>>

\* One turn of the backlink loop: the row is attached at once.
BacklinksNext(c, b) ==
    /\ AppRunning
    /\ kind[c] = "object" /\ pc[c] = "next"
    /\ delivered < MaxResults
    /\ grid' = [grid EXCEPT ![c] = Append(@, BacklinkCell(b))]
    /\ stream' = [stream EXCEPT ![c] = Append(@, b)]
    /\ delivered' = delivered + 1
    /\ UNCHANGED <<nctx, env, kind, uri, open, pc, header, open_button,
                   rows_vec, order, map, is_file_data_object, table_data,
                   dialogs, menu, probe, clipboard, activations>>

BacklinksEnd(c) ==
    /\ AppRunning
    /\ kind[c] = "object" /\ pc[c] = "next"
    /\ pc' = [pc EXCEPT ![c] = "done"]
    /\ UNCHANGED <<nctx, env, kind, uri, open, header, open_button, grid,
                   rows_vec, order, map, is_file_data_object, table_data,
                   dialogs, stream, delivered, menu, probe,
                   clipboard, activations>>

\* What the stream records when the cursor fails to advance.
CURSOR_ERROR == [pred |-> "<error>", obj |-> "<error>", dtype |-> EmptyStr,
                 subj |-> "<error>"]

\* A faulty end of the describe loop, which takes a failure of the cursor
\* for a failure of the query.
DescribeCursorError_query(c) ==
    /\ AppRunning
    /\ kind[c] = "subject" /\ pc[c] = "next"
    /\ dialogs' = [dialogs EXCEPT ![c] = Append(@, "SPARQL query error")]
    /\ Complete(c, ErrorReturn(rows_vec[c]))
    /\ rows_vec' = [rows_vec EXCEPT ![c] = <<>>]
    /\ order' = [order EXCEPT ![c] = <<>>]
    /\ map' = [map EXCEPT ![c] = EmptyMap]
    /\ is_file_data_object' = [is_file_data_object EXCEPT ![c] = FALSE]
    /\ stream' = [stream EXCEPT ![c] = Append(@, CURSOR_ERROR)]
    /\ UNCHANGED <<nctx, env, kind, uri, open, open_button, grid, delivered,
                   menu, probe, clipboard, activations>>

\* cursor.next_future() fails in the describe loop: unwrap_or(false) ends
\* the loop, and the rows are built from what has been folded.
DescribeCursorError(c) ==
    /\ AppRunning
    /\ kind[c] = "subject" /\ pc[c] = "next"
    /\ grid' = [grid EXCEPT ![c] = @ \o BuildCells(order[c], map[c], 1)]
    /\ Complete(c, [is_file |-> is_file_data_object[c],
                    rows |-> rows_vec[c] \o BuildRows(order[c], map[c], 1)])
    /\ rows_vec' = [rows_vec EXCEPT ![c] = <<>>]
    /\ order' = [order EXCEPT ![c] = <<>>]
    /\ map' = [map EXCEPT ![c] = EmptyMap]
    /\ is_file_data_object' = [is_file_data_object EXCEPT ![c] = FALSE]
    /\ stream' = [stream EXCEPT ![c] = Append(@, CURSOR_ERROR)]
    /\ UNCHANGED <<nctx, env, kind, uri, open, open_button, dialogs,
                   delivered, menu, probe, clipboard, activations>>

\* cursor.next_future() fails in the backlink loop: the loop ends.
BacklinksCursorError(c) ==
    /\ AppRunning
    /\ kind[c] = "object" /\ pc[c] = "next"
    /\ pc' = [pc EXCEPT ![c] = "done"]
    /\ stream' = [stream EXCEPT ![c] = Append(@, CURSOR_ERROR)]
    /\ UNCHANGED <<nctx, env, kind, uri, open, header, open_button, grid,
                   rows_vec, order, map, is_file_data_object, table_data,
                   dialogs, delivered, menu, probe, clipboard, activations>>

Next ==
    \/ \E u \in LaunchIds : Launch(u)
    \/ \E c \in Ctx : Close(c)
    \/ \E c \in Ctx : \E r \in 1..(MaxResults + 1) : ActivateLink(c, r)
    \/ \E c \in Ctx : OpenObjectWindow(c)
    \/ \E c \in Ctx : DescribeStart(c)
    \/ \E c \in Ctx : DescribeConnectError(c)
    \/ \E c \in Ctx : DescribeQueryOk(c)
    \/ \E c \in Ctx : DescribeQueryError(c)
    \/ \E c \in Ctx : \E t \in Triples : DescribeNext(c, t)
    \/ \E c \in Ctx : DescribeEnd(c)
    \/ \E c \in Ctx : BacklinksStart(c)
    \/ \E c \in Ctx : BacklinksConnectError(c)
    \/ \E c \in Ctx : BacklinksQueryOk(c)
    \/ \E c \in Ctx : BacklinksQueryError(c)
    \/ \E c \in Ctx : \E b \in Backlinks : BacklinksNext(c, b)
    \/ \E c \in Ctx : BacklinksEnd(c)

Spec == Init /\ [][Next]_vars

\* The runs that compare the "Open" button with the "Open Externally" item:
\* one window, for any identifier in any environment, and right clicks on
\* its rows.
InitOpen ==
    /\ nctx = 0
    /\ env \in OpenEnvs
    /\ kind = [c \in Ctx |-> "none"]
    /\ uri = [c \in Ctx |-> EmptyStr]
    /\ open = [c \in Ctx |-> FALSE]
    /\ pc = [c \in Ctx |-> "none"]
    /\ header = [c \in Ctx |-> ""]
    /\ open_button = [c \in Ctx |-> FALSE]
    /\ grid = [c \in Ctx |-> <<>>]
    /\ rows_vec = [c \in Ctx |-> <<>>]
    /\ order = [c \in Ctx |-> <<>>]
    /\ map = [c \in Ctx |-> EmptyMap]
    /\ is_file_data_object = [c \in Ctx |-> FALSE]
    /\ table_data = [c \in Ctx |-> <<>>]
    /\ dialogs = [c \in Ctx |-> <<>>]
    /\ stream = [c \in Ctx |-> <<>>]
    /\ delivered = 0
    /\ menu = NoMenu
    /\ probe = NoProbe
    /\ clipboard = NoValue
    /\ activations = <<>>

NextOpen ==
    \/ \E u \in OpenIds : Launch(u)
    \/ DescribeStart(1)
    \/ DescribeConnectError(1)
    \/ \E r \in 1..(MaxResults + 1) : PressValue(1, r)

SpecOpen == InitOpen /\ [][NextOpen]_vars

\* The strings passed to ellipsize.
Strs == UNION {[1..n -> Chars] : n \in 0..MaxLen}

\* A call of a helper function: the probe records the function, its
\* arguments and its result; the windows are left alone.
CallFriendlyValue(obj, dtype) ==
    /\ probe' = [fn |-> "friendly_value", args |-> <<obj, dtype>>,
                 out |-> friendly_value(obj, dtype, env.tz)]
    /\ UNCHANGED <<nctx, env, kind, uri, open, pc, header, open_button, grid,
                   rows_vec, order, map, is_file_data_object, table_data,
                   dialogs, stream, delivered, menu, clipboard, activations>>

CallEllipsize(s, max_chars) ==
    /\ probe' = [fn |-> "ellipsize", args |-> <<s, max_chars>>,
                 out |-> ellipsize(s, max_chars)]
    /\ UNCHANGED <<nctx, env, kind, uri, open, pc, header, open_button, grid,
                   rows_vec, order, map, is_file_data_object, table_data,
                   dialogs, stream, delivered, menu, clipboard, activations>>

CallFriendlyLabel(u) ==
    /\ probe' = [fn |-> "friendly_label", args |-> <<u>>,
                 out |-> friendly_label(u)]
    /\ UNCHANGED <<nctx, env, kind, uri, open, pc, header, open_button, grid,
                   rows_vec, order, map, is_file_data_object, table_data,
                   dialogs, stream, delivered, menu, clipboard, activations>>

CallUriHasHandler(u) ==
    /\ probe' = [fn |-> "uri_has_handler", args |-> <<u>>,
                 out |-> uri_has_handler(u, env)]
    /\ UNCHANGED <<nctx, env, kind, uri, open, pc, header, open_button, grid,
                   rows_vec, order, map, is_file_data_object, table_data,
                   dialogs, stream, delivered, menu, clipboard, activations>>

\* The runs that call the helper functions, in any environment.
InitFn ==
    /\ nctx = 0
    /\ env \in FnEnvs
    /\ kind = [c \in Ctx |-> "none"]
    /\ uri = [c \in Ctx |-> EmptyStr]
    /\ open = [c \in Ctx |-> FALSE]
    /\ pc = [c \in Ctx |-> "none"]
    /\ header = [c \in Ctx |-> ""]
    /\ open_button = [c \in Ctx |-> FALSE]
    /\ grid = [c \in Ctx |-> <<>>]
    /\ rows_vec = [c \in Ctx |-> <<>>]
    /\ order = [c \in Ctx |-> <<>>]
    /\ map = [c \in Ctx |-> EmptyMap]
    /\ is_file_data_object = [c \in Ctx |-> FALSE]
    /\ table_data = [c \in Ctx |-> <<>>]
    /\ dialogs = [c \in Ctx |-> <<>>]
    /\ stream = [c \in Ctx |-> <<>>]
    /\ delivered = 0
    /\ menu = NoMenu
    /\ probe = NoProbe
    /\ clipboard = NoValue
    /\ activations = <<>>

NextFn ==
    \/ \E obj \in Values, dtype \in Datatypes : CallFriendlyValue(obj, dtype)
    \/ \E s \in Strs, max_chars \in 0..MaxChars : CallEllipsize(s, max_chars)
    \/ \E u \in LabelIds : CallFriendlyLabel(u)
    \/ \E u \in HandlerIds : CallUriHasHandler(u)

SpecFn == InitFn /\ [][NextFn]_vars

\* The runs that call uri_has_handler in the environments of the surfaces:
\* the index fails, has no row, has a row without or with a content type.
NextHandler == \E u \in HandlerIds : CallUriHasHandler(u)

SpecHandler == InitOpen /\ [][NextHandler]_vars

\* The runs that show the backlinks of one subject, in any environment, and
\* right clicks on their rows: the subjects are URIs with and without an
\* application, and strings that are not URIs.
OpenBacklinks ==
    {[subj |-> u, pred |-> P_NAME] : u \in {ID_FILE, ID_PLAIN, ID_NODE, ID_TEXT}}

NextBack ==
    \/ \E u \in LaunchIds : Launch(u)
    \/ DescribeStart(1)
    \/ OpenObjectWindow(1)
    \/ BacklinksStart(2)
    \/ BacklinksQueryOk(2)
    \/ \E b \in OpenBacklinks : BacklinksNext(2, b)
    \/ BacklinksEnd(2)
    \/ \E r \in 1..MaxResults : PressValue(2, r)

SpecBack == InitOpen /\ [][NextBack]_vars

\* The runs that describe one subject whose values hold the characters the
\* writer quotes, and copy the table at any time.
NextCopy ==
    \/ \E u \in LaunchIds : Launch(u)
    \/ DescribeStart(1)
    \/ DescribeConnectError(1)
    \/ DescribeQueryOk(1)
    \/ DescribeQueryError(1)
    \/ \E t \in CopyTriples : DescribeNext(1, t)
    \/ DescribeEnd(1)
    \/ Copy(1)

SpecCopy == Init /\ [][NextCopy]_vars

\* The runs that activate open-uri in one window, for any parameter in any
\* environment, with a launcher that succeeds or fails.
NextAct ==
    \/ \E u \in LaunchIds : Launch(u)
    \/ DescribeStart(1)
    \/ \E u \in OpenIds, launch_ok \in BOOLEAN : ActivateOpenUri(1, u, launch_ok)

SpecAct == InitOpen /\ [][NextAct]_vars

\* The runs of one subject window and one backlink window whose cursors
\* may fail to advance.
NextCursor ==
    \/ \E u \in LaunchIds : Launch(u)
    \/ DescribeStart(1)
    \/ DescribeQueryOk(1)
    \/ \E t \in Triples : DescribeNext(1, t)
    \/ DescribeEnd(1)
    \/ DescribeCursorError(1)
    \/ OpenObjectWindow(1)
    \/ BacklinksStart(2)
    \/ BacklinksQueryOk(2)
    \/ \E b \in Backlinks : BacklinksNext(2, b)
    \/ BacklinksEnd(2)
    \/ BacklinksCursorError(2)

SpecCursor == Init /\ [][NextCursor]_vars

\* The runs that describe one subject whose values are of every kind, in
\* any local zone.
InitValue ==
    /\ nctx = 0
    /\ env \in ValueEnvs
    /\ kind = [c \in Ctx |-> "none"]
    /\ uri = [c \in Ctx |-> EmptyStr]
    /\ open = [c \in Ctx |-> FALSE]
    /\ pc = [c \in Ctx |-> "none"]
    /\ header = [c \in Ctx |-> ""]
    /\ open_button = [c \in Ctx |-> FALSE]
    /\ grid = [c \in Ctx |-> <<>>]
    /\ rows_vec = [c \in Ctx |-> <<>>]
    /\ order = [c \in Ctx |-> <<>>]
    /\ map = [c \in Ctx |-> EmptyMap]
    /\ is_file_data_object = [c \in Ctx |-> FALSE]
    /\ table_data = [c \in Ctx |-> <<>>]
    /\ dialogs = [c \in Ctx |-> <<>>]
    /\ stream = [c \in Ctx |-> <<>>]
    /\ delivered = 0
    /\ menu = NoMenu
    /\ probe = NoProbe
    /\ clipboard = NoValue
    /\ activations = <<>>

NextValue ==
    \/ \E u \in LaunchIds : Launch(u)
    \/ DescribeStart(1)
    \/ DescribeQueryOk(1)
    \/ \E t \in ValueTriples : DescribeNext(1, t)
    \/ DescribeEnd(1)

SpecValue == InitValue /\ [][NextValue]_vars

\* ------------------------------------------------------------ properties

\* The predicates of a sequence of triples and of a sequence of rows.
StreamPreds(st) == [i \in 1..Len(st) |-> st[i].pred]

RowPreds(rows) == [i \in 1..Len(rows) |-> rows[i].native_predicate]

\* The elements of ps in the order of their first occurrence.
RECURSIVE FirstOccurrences(_, _)
FirstOccurrences(ps, seen) ==
    IF ps = <<>> THEN <<>>
    ELSE IF Head(ps) \in seen THEN FirstOccurrences(Tail(ps), seen)
    ELSE <<Head(ps)>> \o FirstOccurrences(Tail(ps), seen \cup {Head(ps)})

\* The blocks of ps: one element for every maximal run of equal elements.
RECURSIVE Blocks(_)
Blocks(ps) ==
    IF Len(ps) <= 1 THEN ps
    ELSE IF ps[1] = ps[2] THEN Blocks(Tail(ps))
    ELSE <<ps[1]>> \o Blocks(Tail(ps))

Count(ps, p) == Cardinality({i \in 1..Len(ps) : ps[i] = p})

IsTypeTriple(t) == t.pred = RDF_TYPE /\ t.obj = FILEDATAOBJECT

\* C1: after a describe that read its stream, the predicate blocks of the
\* returned rows that follow the Identifier row appear in the order in which
\* the predicates first occur in the stream, each predicate in one block,
\* however many values it has and however the predicates are interleaved.
C1_BlockOrder ==
    \A c \in Ctx :
        DescribedOk(c) =>
            /\ table_data[c] # <<>>
            /\ Blocks(RowPreds(Tail(table_data[c])))
                   = FirstOccurrences(StreamPreds(stream[c]), {})

\* A describe has returned for a stream p, q, p of two predicates.
C1_Witness ==
    \E c \in Ctx :
        /\ DescribedOk(c)
        /\ Len(stream[c]) = 3
        /\ stream[c][1].pred = stream[c][3].pred
        /\ stream[c][2].pred # stream[c][1].pred
        /\ Len(table_data[c]) = 4

\* C2: after a describe that read a stream of N triples the row set holds
\* N + 1 rows, the Identifier row and one row for every triple, and every row
\* of a block, the first and the later ones, carries the label of its
\* predicate as display predicate and the predicate as native predicate.
C2_RowCount ==
    \A c \in Ctx :
        DescribedOk(c) =>
            /\ Len(table_data[c]) = Len(stream[c]) + 1
            /\ \A i \in 2..Len(table_data[c]) :
                   LET row == table_data[c][i]
                   IN  /\ row.display_predicate = LabelOf[row.native_predicate]
                       /\ Count(RowPreds(Tail(table_data[c])), row.native_predicate)
                              = Count(StreamPreds(stream[c]), row.native_predicate)
            /\ \A i \in 1..Len(stream[c]) :
                   Count(RowPreds(Tail(table_data[c])), stream[c][i].pred) >= 1

\* One window described a subject with no triples and holds one row, another
\* one holds a block of two rows.
C2_Witness ==
    /\ \E c \in Ctx : DescribedOk(c) /\ stream[c] = <<>> /\ Len(table_data[c]) = 1
    /\ \E c \in Ctx :
           /\ DescribedOk(c)
           /\ \E i \in 2..(Len(table_data[c]) - 1) :
                  table_data[c][i].native_predicate
                      = table_data[c][i + 1].native_predicate

\* C3: whatever the outcome of describe, row 0 of the row set of a subject
\* window is the Identifier row: both predicate forms are "Identifier" and
\* both value forms are the identifier the window inspects.
C3_IdentifierRow ==
    \A c \in Ctx :
        Described(c) =>
            /\ Len(table_data[c]) >= 1
            /\ table_data[c][1] =
                   [display_predicate |-> "Identifier",
                    native_predicate |-> "Identifier",
                    display_value |-> uri[c], native_value |-> uri[c]]

\* C4: the flag describe returns is true exactly when some triple of the
\* stream is (RDF_TYPE, FILEDATAOBJECT), wherever it sits, and no turn of
\* the cursor loop resets a flag that is set.
C4_FileLike ==
    /\ [](\A c \in Ctx :
             /\ DescribedOk(c) =>
                    ((header[c] = "File Information")
                        <=> \E i \in 1..Len(stream[c]) : IsTypeTriple(stream[c][i]))
             /\ (kind[c] = "subject" /\ pc[c] = "next") =>
                    (is_file_data_object[c]
                        <=> \E i \in 1..Len(stream[c]) : IsTypeTriple(stream[c][i])))
    /\ [][\A c \in Ctx :
             (is_file_data_object[c] /\ pc'[c] = "next")
                 => is_file_data_object'[c]]_vars

\* A describe returned true for a stream whose type triple is followed by
\* another triple.
C4_Witness ==
    \E c \in Ctx :
        /\ DescribedOk(c)
        /\ header[c] = "File Information"
        /\ Len(stream[c]) >= 2
        /\ IsTypeTriple(stream[c][1])
        /\ ~IsTypeTriple(stream[c][Len(stream[c])])

\* C5: when the connection cannot be created or the query fails, describe
\* returns (false, no rows); the failure of the connection and the failure of
\* the query are reported by different dialogs, one dialog for the failure,
\* and neither the connection nor the query is tried again.
C5_FailureReturn ==
    /\ [](\A c \in Ctx :
             (kind[c] = "subject" /\ dialogs[c] # <<>>) =>
                 /\ pc[c] = "done"
                 /\ table_data[c] = <<>>
                 /\ header[c] = "Node Information"
                 /\ Len(dialogs[c]) = 1
                 /\ stream[c] = <<>>)
    /\ [][\A c \in Ctx :
             (kind[c] = "subject" /\ dialogs'[c] # dialogs[c]) =>
                 /\ pc[c] = "spawned" =>
                        dialogs'[c] = <<"Failed to connect to Tracker">>
                 /\ pc[c] = "query" => dialogs'[c] = <<"SPARQL query error">>
                 /\ pc[c] \in {"spawned", "query"}]_vars
    /\ [][\A c \in Ctx : pc[c] = "done" => pc'[c] = "done"]_vars

\* One window's describe failed to connect and another one's query failed.
C5_Witness ==
    /\ \E c \in Ctx : Described(c) /\ dialogs[c] = <<"Failed to connect to Tracker">>
    /\ \E c \in Ctx : Described(c) /\ dialogs[c] = <<"SPARQL query error">>

\* The Identifier row as the grid shows it.
IdentifierShown(c) ==
    [key |-> "Identifier", kind |-> "label", text |-> uri[c], native |-> uri[c]]

\* C6 as stated: when a describe or a backlink operation aborts on a failed
\* connection or a failed query, the grid of the window holds no row that
\* the aborted operation produced.
C6_NoRows ==
    \A c \in Ctx : dialogs[c] # <<>> => grid[c] = <<>>

\* C6, amended: when a describe or a backlink operation aborts on a failed
\* connection or a failed query, the grid shows no row of the query: the grid
\* of a subject window holds the Identifier row alone, which populate_grid
\* attaches before it connects, and the grid of a backlink window is empty.
C6_NoQueryRows ==
    \A c \in Ctx :
        dialogs[c] # <<>> =>
            /\ pc[c] = "done"
            /\ kind[c] = "subject" => grid[c] = <<IdentifierShown(c)>>
            /\ kind[c] = "object" => grid[c] = <<>>

\* A describe and a backlink operation have both aborted.
C6_Witness ==
    /\ \E c \in Ctx : kind[c] = "subject" /\ dialogs[c] # <<>> /\ Len(grid[c]) = 1
    /\ \E c \in Ctx : kind[c] = "object" /\ dialogs[c] # <<>>

\* C7: once a window is closed while its query is pending, no step inserts
\* a row into its grid or its row set or changes its header.
C7_ClosedIsInert ==
    [][\A c \in Ctx :
          (kind[c] # "none" /\ ~open[c] /\ pc[c] \in {"query", "next"}) =>
              /\ grid'[c] = grid[c]
              /\ table_data'[c] = table_data[c]
              /\ header'[c] = header[c]]_vars

\* C8: for the identifier a window inspects, the "Open" button is in the
\* bottom bar exactly when the menu of the identifier's value offers
\* "Open Externally".
C8_SurfacesAgree ==
    (menu.ctx # 0 /\ menu.row = 1 /\ kind[menu.ctx] = "subject") =>
        (open_button[menu.ctx]
            <=> \E i \in 1..Len(menu.items) :
                    menu.items[i].label = "Open Externally")

\* C9: a link activation opens a window that no inspection has used, for
\* the identifier of the activated link, with nothing shown and its own
\* task still to run, also when the identifier was inspected before; it
\* leaves the row set, the header, the grid and the task of every other
\* window as they are, and no window ever changes its identifier.
C9_FreshContext ==
    /\ [][(nctx > 0 /\ nctx' # nctx /\ kind'[nctx'] = "subject") =>
             LET n == nctx'
             IN  /\ n = nctx + 1
                 /\ kind[n] = "none"
                 /\ \E c \in 1..nctx :
                        \E r \in 1..Len(grid[c]) :
                            /\ grid[c][r].kind = "link"
                            /\ uri'[n] = grid[c][r].native
                 /\ pc'[n] = "spawned"
                 /\ header'[n] = "Loading..."
                 /\ grid'[n] = <<>>
                 /\ table_data'[n] = <<>>
                 /\ stream'[n] = <<>>
                 /\ \A c \in 1..nctx :
                        /\ table_data'[c] = table_data[c]
                        /\ header'[c] = header[c]
                        /\ grid'[c] = grid[c]
                        /\ pc'[c] = pc[c]]_vars
    /\ [][\A c \in Ctx : kind[c] # "none" => uri'[c] = uri[c]]_vars

\* A link of a metadata view and a link of a backlink view have been
\* activated; the second one leads to an identifier inspected before, and
\* its window has run its own query.
C9_Witness ==
    \E a, b, c \in Ctx :
        /\ a < b /\ b < c
        /\ kind[a] = "subject" /\ kind[b] = "object" /\ kind[c] = "subject"
        /\ uri[c] = uri[a]
        /\ \E r \in 1..Len(grid[b]) :
               grid[b][r].kind = "link" /\ grid[b][r].native = uri[c]
        /\ DescribedOk(a) /\ DescribedOk(c)
        /\ stream[c] # <<>>
        /\ table_data[a] # table_data[c]

\* The entries (predicate, value) of a stream and of a sequence of rows.
StreamEntries(st) == [i \in 1..Len(st) |-> <<st[i].pred, st[i].obj>>]

RowEntries(rows) ==
    [i \in 1..Len(rows) |-> <<rows[i].native_predicate, rows[i].native_value>>]

\* C10: the row set of a window is the result of describing its own
\* identifier: the Identifier row of its identifier and the entries its own
\* cursor delivered; a step changes the row set of one window at most, the
\* one whose task ends in that step.
C10_OwnRows ==
    /\ [](\A c \in Ctx :
             DescribedOk(c) =>
                 /\ table_data[c] # <<>>
                 /\ table_data[c][1].native_value = uri[c]
                 /\ \A e \in {StreamEntries(stream[c])[i] : i \in 1..Len(stream[c])}
                        \cup {RowEntries(Tail(table_data[c]))[i] :
                                 i \in 1..(Len(table_data[c]) - 1)} :
                        Count(RowEntries(Tail(table_data[c])), e)
                            = Count(StreamEntries(stream[c]), e))
    /\ [][\A c \in Ctx :
             table_data'[c] # table_data[c] =>
                 (pc[c] \in {"spawned", "query", "next"} /\ pc'[c] = "done")]_vars

\* A window has ended its describe with rows of its own while an older
\* window, pending since before the younger one was opened, is still in its
\* cursor loop with results of its own.
C10_Witness ==
    \E c, d \in Ctx :
        /\ d < c
        /\ kind[c] = "subject" /\ kind[d] = "subject"
        /\ DescribedOk(c) /\ Len(table_data[c]) >= 2
        /\ pc[d] = "next" /\ stream[d] # <<>>
        /\ table_data[d] = <<>>

\* ------------------------------------------------- values of the rows

\* The triples of st, and the rows, of predicate p, in their order.
TriplesOf(st, p) == SelectSeq(st, LAMBDA t : t.pred = p)

RowsOf(rows, p) == SelectSeq(rows, LAMBDA r : r.native_predicate = p)

\* The values that are ISO-8601 date-times with a time-zone designator.
Iso8601Values == {V_DATE_Z, V_DATE_OFF, V_DATE_END}

\* The date-time a value denotes, written as "%F %T" in the zone tz minutes
\* east of UTC.
DateFormatted(obj, tz) ==
    CASE obj = V_DATE_Z /\ tz = 0 -> "2024-06-04 12:34:56"
      [] obj = V_DATE_Z /\ tz = 120 -> "2024-06-04 14:34:56"
      [] obj = V_DATE_Z /\ tz = 0 - 300 -> "2024-06-04 07:34:56"
      [] obj = V_DATE_OFF /\ tz = 0 -> "2025-01-01 01:30:00"
      [] obj = V_DATE_OFF /\ tz = 120 -> "2025-01-01 03:30:00"
      [] obj = V_DATE_OFF /\ tz = 0 - 300 -> "2024-12-31 20:30:00"
      [] obj = V_DATE_END /\ tz = 0 -> "9999-12-31 23:59:59"
      [] obj = V_DATE_END /\ tz = 120 -> "10000-01-01 01:59:59"
      [] obj = V_DATE_END /\ tz = 0 - 300 -> "9999-12-31 18:59:59"
      [] OTHER -> NoValue

\* The local time of a value lies in the years 1 to 9999 of a DateTime.
LocalRepresentable(obj, tz) == ~(obj = V_DATE_END /\ tz > 0)

\* Every row of a predicate is the row of the triple at the same place among
\* the triples of the predicate, with the display value given by shown.
RowsFollow(c, shown(_, _)) ==
    \A p \in {stream[c][i].pred : i \in 1..Len(stream[c])} :
        LET ts == TriplesOf(stream[c], p)
            rs == RowsOf(Tail(table_data[c]), p)
        IN  /\ Len(rs) = Len(ts)
            /\ \A j \in 1..Len(ts) :
                   /\ rs[j].native_value = ts[j].obj
                   /\ rs[j].display_value = shown(ts[j].obj, ts[j].dtype)

C11_ShownWhenParsed(obj, dtype) ==
    IF dtype = XSD_DATETYPE /\ obj \in Iso8601Values
    THEN DateFormatted(obj, env.tz)
    ELSE obj

C11_ShownWhenLocal(obj, dtype) ==
    IF dtype = XSD_DATETYPE /\ obj \in Iso8601Values
       /\ LocalRepresentable(obj, env.tz)
    THEN DateFormatted(obj, env.tz)
    ELSE obj

\* C11 as stated: in every triple row of a describe the native value is the
\* raw value of the triple, and the display value is the date-formatted value
\* when the datatype is the date constant and the value parses as ISO-8601,
\* and the raw value otherwise.
C11_DisplayValue ==
    \A c \in Ctx :
        DescribedOk(c) => RowsFollow(c, C11_ShownWhenParsed)

\* C11: in every triple row of a describe the native value is the raw value
\* of the triple, and the display value is the date-formatted value when the
\* datatype is the date constant, the value parses as ISO-8601 and its local
\* time lies in the years 1 to 9999, and the raw value in every other case:
\* an empty or unknown datatype, an unparsable date, a date whose local time
\* cannot be represented.
C11_DisplayValueLocal ==
    \A c \in Ctx :
        DescribedOk(c) => RowsFollow(c, C11_ShownWhenLocal)

\* A describe has returned rows for a date shown in a local zone off UTC, for
\* a date that does not parse, and for a value of another datatype.
C11_Witness ==
    \E c \in Ctx :
        /\ DescribedOk(c)
        /\ env.tz # 0
        /\ \E i, j, k \in 2..Len(table_data[c]) :
               /\ table_data[c][i].native_value = V_DATE_OFF
               /\ table_data[c][i].display_value # V_DATE_OFF
               /\ table_data[c][j].native_value = V_INVALID
               /\ table_data[c][j].display_value = V_INVALID
               /\ table_data[c][k].native_value = V_LINES
               /\ table_data[c][k].display_value = V_LINES

\* The triples of st in the order of their rows: the triples of each
\* predicate together, the predicates in the order of ps.
RECURSIVE Grouped(_, _)
Grouped(st, ps) ==
    IF ps = <<>> THEN <<>>
    ELSE TriplesOf(st, Head(ps)) \o Grouped(st, Tail(ps))

InRowOrder(st) == Grouped(st, FirstOccurrences(StreamPreds(st), {}))

\* The values that contain a line break.
MultilineValues == {V_LINES}

\* The presentation category of a value: the widget that shows it.
Category(obj, dtype) ==
    IF dtype = EmptyStr THEN "link"
    ELSE IF obj \in MultilineValues THEN "textview"
    ELSE "label"

\* C12: the widget of a value follows the priority order: a value with an
\* empty datatype is a link, also when it contains a line break, and the
\* link shows the value verbatim; otherwise a value that contains a line
\* break is in a text view; otherwise it is in a label.  Every value has
\* exactly one of the three widgets.
C12_Category ==
    \A c \in Ctx :
        DescribedOk(c) =>
            LET ts == InRowOrder(stream[c])
            IN  /\ Len(grid[c]) = Len(ts) + 1
                /\ \A i \in 1..Len(ts) :
                       LET cell == grid[c][i + 1]
                       IN  /\ cell.kind \in {"link", "textview", "label"}
                           /\ cell.kind = Category(ts[i].obj, ts[i].dtype)
                           /\ cell.kind = "link" =>
                                  UnescapedOf[cell.text] = ts[i].obj

\* A describe has returned a link for a value with a line break and no
\* datatype, a text view for the same value with a datatype, and a label.
C12_Witness ==
    \E c \in Ctx :
        /\ DescribedOk(c)
        /\ \E i, j, k \in 2..Len(grid[c]) :
               /\ grid[c][i].kind = "link" /\ grid[c][i].native = V_LINES
               /\ grid[c][j].kind = "textview" /\ grid[c][j].native = V_LINES
               /\ grid[c][k].kind = "label"

\* -------------------------------------------------- the value formatter

\* C13: friendly_value is total and fail-soft: every call on a value and a
\* datatype returns a string; for a datatype other than the date constant it
\* returns the value unchanged, and for the date constant with a value that
\* does not parse as a date it returns the raw value unchanged.
C13_FailSoft ==
    probe.fn = "friendly_value" =>
        LET obj == probe.args[1]
            dtype == probe.args[2]
        IN  /\ probe.out \in STRING
            /\ dtype # XSD_DATETYPE => probe.out = obj
            /\ (dtype = XSD_DATETYPE /\ obj \notin Iso8601Values) =>
                   probe.out = obj

\* friendly_value has returned "invalid" for "invalid" with the date constant.
C13_Witness ==
    /\ probe.fn = "friendly_value"
    /\ probe.args = <<V_INVALID, XSD_DATETYPE>>
    /\ probe.out = V_INVALID

\* C14: friendly_value is idempotent: the value it returned for a value and
\* a datatype, formatted again with the same datatype, is returned as it is;
\* a formatted date is not formatted a second time into something else.
C14_Idempotent ==
    probe.fn = "friendly_value" =>
        friendly_value(probe.out, probe.args[2], env.tz) = probe.out

\* friendly_value has formatted a date in a local zone off UTC.
C14_Witness ==
    /\ probe.fn = "friendly_value"
    /\ probe.args = <<V_DATE_OFF, XSD_DATETYPE>>
    /\ env.tz # 0
    /\ probe.out = DateFormatted(V_DATE_OFF, env.tz)

\* ------------------------------------------------------------ ellipsize

\* C15: for every string s and every n, ellipsize(s, n) is s when s has at
\* most n chars, and otherwise the first n chars of s followed by one
\* ellipsis and nothing more, n + 1 chars in all; chars are counted, not
\* bytes.
C15_Ellipsize ==
    probe.fn = "ellipsize" =>
        LET s == probe.args[1]
            n == probe.args[2]
        IN  IF Len(s) <= n THEN probe.out = s
            ELSE /\ Len(probe.out) = n + 1
                 /\ SubSeq(probe.out, 1, n) = SubSeq(s, 1, n)
                 /\ probe.out[n + 1] = ELLIPSIS

\* ellipsize has cut a string of three chars and five bytes after its second
\* char, and returned a string of two chars and four bytes unchanged.
C15_Witness ==
    /\ probe.fn = "ellipsize"
    /\ probe.args = <<<<233, 233, 97>>, 2>>
    /\ probe.out = <<233, 233, ELLIPSIS>>
    /\ ellipsize(<<233, 233>>, 2) = <<233, 233>>

\* C16 as stated: for every string s, ellipsize(s, 0) is the string of one
\* char, the ellipsis.
C16_ZeroLimit ==
    (probe.fn = "ellipsize" /\ probe.args[2] = 0) => probe.out = <<ELLIPSIS>>

\* C16: for every string s that is not empty, ellipsize(s, 0) is the string
\* of one char, the ellipsis; for the empty string it is the empty string.
C16_ZeroLimitNonEmpty ==
    (probe.fn = "ellipsize" /\ probe.args[2] = 0) =>
        IF probe.args[1] # <<>> THEN probe.out = <<ELLIPSIS>>
        ELSE probe.out = <<>>

\* ellipsize has returned the ellipsis for a string of two chars and a limit
\* of zero.
C16_Witness ==
    /\ probe.fn = "ellipsize"
    /\ probe.args = <<<<97, 233>>, 0>>
    /\ probe.out = <<ELLIPSIS>>

\* ------------------------------------------------------- friendly_label

\* An identifier made of separators only, or empty.
OnlySeparators(u) == \A i \in 1..Len(u) : IsSeparator(Ch(u, i))

\* C17: trailing separators are ignored by friendly_label: the label of an
\* identifier followed by a run of '/' and '#' that is not empty is the label
\* of the identifier, and an identifier that is empty once its trailing
\* separators are stripped has the empty label.
C17_TrailingSeparators ==
    probe.fn = "friendly_label" =>
        LET u == probe.args[1]
        IN  /\ \A t \in SeparatorRuns : friendly_label(u \o t) = probe.out
            /\ OnlySeparators(u) => probe.out = EmptyStr

\* friendly_label has returned "Foo Bar Baz" for an identifier that ends with
\* three separators.
C17_Witness ==
    /\ probe.fn = "friendly_label"
    /\ probe.args = <<"https://example.com/FooBarBaz##/">>
    /\ probe.out = "Foo Bar Baz"
    /\ friendly_label("#/") = EmptyStr

\* The local name of an identifier: what lies between its last separator
\* that is followed by another character and its trailing separators.
LocalName(u) ==
    LET kept == {i \in 1..Len(u) : ~IsSeparator(Ch(u, i))}
    IN  IF kept = {} THEN EmptyStr
        ELSE LET n == CHOOSE i \in kept : \A j \in kept : j <= i
                 seps == {i \in 1..n : IsSeparator(Ch(u, i))}
                 k == IF seps = {} THEN 0
                      ELSE CHOOSE i \in seps : \A j \in seps : j <= i
             IN  SubSeq(u, k + 1, n)

\* The chars of a local name from the i-th on, a space before every
\* upper-case char that is not the first, the first char upper-cased.
RECURSIVE Spaced(_, _, _)
Spaced(name, i, acc) ==
    IF i > Len(name) THEN acc
    ELSE LET ch == SubSeq(name, i, i)
         IN  Spaced(name, i + 1,
                    acc \o (IF i > 1 /\ ch \in UpperSet THEN " " ELSE "")
                        \o (IF i = 1 THEN to_uppercase(ch) ELSE ch))

\* C18: the label of an identifier is its local name, the part after the
\* last '#' or '/' of the trimmed identifier or all of it, split into words
\* before each upper-case letter that is not the first character of its
\* word, the first character of each word upper-cased and the others
\* unchanged, the words joined by single spaces.
C18_Label ==
    probe.fn = "friendly_label" =>
        probe.out = Spaced(LocalName(probe.args[1]), 1, "")

\* friendly_label has returned "Foo Bar Baz" for "FooBarBaz", and a name
\* without inner upper-case letter with its first letter upper-cased.
C18_Witness ==
    /\ probe.fn = "friendly_label"
    /\ probe.args = <<"https://example.com/FooBarBaz">>
    /\ probe.out = "Foo Bar Baz"
    /\ friendly_label("https://example.com") = "Example.com"

\* ------------------------------------------------------ uri_has_handler

\* The strings that are not URIs: they have no scheme.
NonUris == {ID_PLAIN, ID_TEXT, EmptyStr, V_DATE_Z}

\* C19: for a string that does not parse as a URI, uri_has_handler returns
\* Ok and consults neither the content-type guess, nor the index, nor the
\* registry of default applications.
C19_NonUriSucceeds ==
    (probe.fn = "uri_has_handler" /\ probe.args[1] \in NonUris) =>
        /\ probe.out.ok
        /\ probe.out.consulted = {}

\* uri_has_handler has returned Ok for "not a uri" where no content type
\* and no scheme has a default application.
C19_Witness ==
    /\ probe.fn = "uri_has_handler"
    /\ probe.args = <<ID_TEXT>>
    /\ env.typeApps = {} /\ env.schemeApps = {}
    /\ probe.out.ok

\* The identifiers that are URIs of a scheme other than file, and the
\* scheme of each.
SchemeOf ==
    (ID_HTTP :> "http") @@ (ID_UPPER :> "http") @@ (ID_NODE :> "urn")
        @@ (ID_UNKNOWN :> "nosuchscheme")

\* C20: for an identifier that parses as a URI of a scheme other than file,
\* uri_has_handler fails, with the message that no application is available
\* for the scheme, which it names, if and only if the registry has no
\* default application for the scheme; otherwise it returns Ok.
C20_SchemeHandler ==
    (probe.fn = "uri_has_handler" /\ probe.args[1] \in DOMAIN SchemeOf) =>
        LET scheme == SchemeOf[probe.args[1]]
        IN  /\ probe.out.ok <=> scheme \in env.schemeApps
            /\ ~probe.out.ok =>
                   /\ probe.out.kind = "scheme"
                   /\ probe.out.name = scheme
                   /\ probe.out.msg =
                          "No application available for scheme \""
                              \o scheme \o "\"."

\* uri_has_handler has failed for a URI of a scheme without application
\* where another scheme has one.
C20_Witness ==
    /\ probe.fn = "uri_has_handler"
    /\ probe.args = <<ID_UNKNOWN>>
    /\ env.schemeApps = {"http", "urn"}
    /\ ~probe.out.ok
    /\ probe.out.name = "nosuchscheme"
    /\ uri_has_handler(ID_UPPER, env).ok

\* The identifiers that are URIs of the scheme file; the first names a
\* local path, the second a path on another host.
FileUris == {ID_FILE, ID_REMOTE}

\* The content type resolved in the environment: the one of the index when
\* it has a non-empty one, the local guess otherwise.
ResolvedType ==
    IF env.index.kind = "row" /\ env.index.ct # EmptyStr THEN env.index.ct
    ELSE env.guess

\* The check of a file URI u went by the resolved content type.
ByResolvedType(u) ==
    (probe.fn = "uri_has_handler" /\ probe.args[1] = u) =>
        /\ probe.out.ok <=> ResolvedType \in env.typeApps
        /\ ~probe.out.ok =>
               /\ probe.out.kind = "type"
               /\ probe.out.name = ResolvedType
               /\ probe.out.msg = "No application available for type \""
                                      \o ResolvedType \o "\"."

\* C21: for every identifier that parses as a URI of the scheme file,
\* uri_has_handler resolves the content type the index records for it when
\* that is not empty and the local guess otherwise, and fails, with the
\* message that no application is available for the type, which it names,
\* if and only if no application is registered for the resolved type.
C21_FileHandler == \A u \in FileUris : ByResolvedType(u)

\* The same for the file URIs that convert to a local path.
C21_LocalFileHandler == ByResolvedType(ID_FILE)

\* ---------------------------------------------------- the backlink view

\* What a widget shows: the text of a label, the text a link's markup
\* renders.
Shown(cell) ==
    IF cell.kind = "link" THEN UnescapedOf[cell.text] ELSE cell.text

\* C22: the backlink view has one row for every result of its stream, in the
\* order of arrival, without grouping and without deduplication: its k-th
\* row shows the subject and the predicate of the k-th result.
C22_BacklinkRows ==
    \A c \in Ctx :
        kind[c] = "object" =>
            /\ Len(grid[c]) = Len(stream[c])
            /\ \A k \in 1..Len(stream[c]) :
                   /\ Shown(grid[c][k]) = stream[c][k].subj
                   /\ grid[c][k].native = stream[c][k].subj
                   /\ grid[c][k].key = LabelOf[stream[c][k].pred]

\* A backlink view has read the same result twice, around another one, and
\* shows three rows.
C22_Witness ==
    \E c \in Ctx :
        /\ kind[c] = "object" /\ pc[c] = "done"
        /\ Len(stream[c]) = 3
        /\ stream[c][1] = stream[c][3]
        /\ stream[c][2] # stream[c][1]
        /\ Len(grid[c]) = 3

\* The subjects that are URIs.
UriSubjects == {ID_FILE, ID_NODE}

\* C23: in a backlink view a subject is a link if and only if it looks like
\* a URI, whether or not an application can open it: a subject that is a URI
\* without application is a link whose menu lacks the item to open it, and
\* a subject that does not parse as a URI is never a link.
C23_LinkIffUri ==
    \A c \in Ctx :
        kind[c] = "object" =>
            /\ \A k \in 1..Len(grid[c]) :
                   /\ k <= Len(stream[c])
                   /\ grid[c][k].kind =
                          IF stream[c][k].subj \in UriSubjects THEN "link"
                          ELSE "label"
            /\ (menu.ctx = c /\ grid[c][menu.row].kind = "label") =>
                   Len(menu.items) = 2

\* A backlink view shows a URI no application can open as a link, its menu
\* has the two copy items only, and another subject is a label.
C23_Witness ==
    \E c \in Ctx :
        /\ kind[c] = "object"
        /\ env.schemeApps = {}
        /\ \E k, j \in 1..Len(grid[c]) :
               /\ grid[c][k].native = ID_NODE /\ grid[c][k].kind = "link"
               /\ menu.ctx = c /\ menu.row = k /\ Len(menu.items) = 2
               /\ grid[c][j].native = ID_TEXT /\ grid[c][j].kind = "label"

\* ---------------------------------------------------------- the export

\* The text the clipboard holds for the header and the rows: the header
\* record, then the record of each row in the order of the rows, its four
\* fields in the order of the columns.
RECURSIVE RecordsOf(_)
RecordsOf(rows) ==
    IF rows = <<>> THEN ""
    ELSE write_record(<<Head(rows).display_predicate,
                        Head(rows).native_predicate,
                        Head(rows).display_value,
                        Head(rows).native_value>>)
             \o RecordsOf(Tail(rows))

HeaderLine ==
    "Display Predicate,Native Predicate,Display Value,Native Value\n"

\* C24: a Copy of a context's row set sets on the clipboard the fixed header
\* record, followed by one record for every row of the row set, in the order
\* of the rows, with the four fields of the row in the order of the columns;
\* the Identifier row is exported as the first data record.
C24_Export ==
    [][clipboard' # clipboard =>
           \E c \in Ctx :
               /\ kind[c] = "subject"
               /\ clipboard' = HeaderLine \o RecordsOf(table_data[c])
               /\ table_data[c] # <<>> =>
                      /\ table_data[c][1].native_predicate = IDENTIFIER
                      /\ table_data[c][1].native_value = uri[c]]_vars

\* The table of a subject with one value has been copied.
C24_Witness ==
    /\ DescribedOk(1)
    /\ uri[1] = ID_FILE
    /\ stream[1] = <<[pred |-> P_NAME, obj |-> ID_PLAIN, dtype |-> DT_STRING]>>
    /\ clipboard =
           "Display Predicate,Native Predicate,Display Value,Native Value\n"
               \o "Identifier,Identifier,file:///a&b,file:///a&b\n"
               \o "File Name,p/fileName,n,n\n"

\* A reader of delimited text.  The index of the quote that closes a quoted
\* field, sought from j: a quote that is followed by a quote is a quote of
\* the field.
RECURSIVE close_quote(_, _)
close_quote(text, j) ==
    IF j > Len(text) THEN j
    ELSE IF Ch(text, j) # "\"" THEN close_quote(text, j + 1)
    ELSE IF j < Len(text) /\ Ch(text, j + 1) = "\"" THEN close_quote(text, j + 2)
    ELSE j

\* The index of the delimiter or the line break that ends a field without
\* quotes, sought from j.
RECURSIVE plain_end(_, _)
plain_end(text, j) ==
    IF j > Len(text) \/ Ch(text, j) \in {",", "\n"} THEN j
    ELSE plain_end(text, j + 1)

\* The content of a quoted field: every doubled quote is one quote.
RECURSIVE undouble(_, _, _)
undouble(f, i, acc) ==
    IF i > Len(f) THEN acc
    ELSE IF Ch(f, i) = "\"" THEN undouble(f, i + 2, acc \o "\"")
    ELSE undouble(f, i + 1, acc \o Ch(f, i))

\* The records of text from the field that starts at i, where record holds
\* the fields read of the current record.
RECURSIVE read_records(_, _, _, _)
read_records(text, i, record, records) ==
    IF i > Len(text)
    THEN IF record = <<>> THEN records ELSE Append(records, record)
    ELSE LET quoted == Ch(text, i) = "\""
             e == IF quoted THEN close_quote(text, i + 1) + 1
                  ELSE plain_end(text, i)
             f == IF quoted THEN undouble(Slice(text, i + 1, e - 2), 1, "")
                  ELSE Slice(text, i, e - 1)
         IN  IF e > Len(text) THEN Append(records, Append(record, f))
             ELSE IF Ch(text, e) = ","
             THEN read_records(text, e + 1, Append(record, f), records)
             ELSE read_records(text, e + 1, <<>>,
                               Append(records, Append(record, f)))

\* C25: the export round-trips: the text of a Copy, read back as delimited
\* text, holds after the header as many records as the row set has rows, and
\* each record holds the four field values of its row, also when a field
\* holds the delimiter, a quote or a line break.
C25_RoundTrip ==
    [][clipboard' # clipboard =>
           \E c \in Ctx :
               LET recs == read_records(clipboard', 1, <<>>, <<>>)
                   rows == table_data[c]
               IN  /\ Len(recs) = Len(rows) + 1
                   /\ recs[1] = HeaderRecord
                   /\ \A k \in 1..Len(rows) :
                          recs[k + 1] = <<rows[k].display_predicate,
                                          rows[k].native_predicate,
                                          rows[k].display_value,
                                          rows[k].native_value>>]_vars

\* The table of a subject whose values hold a quote, a line break and the
\* delimiter has been copied, and its fields are quoted on the clipboard.
C25_Witness ==
    /\ DescribedOk(1)
    /\ uri[1] = ID_FILE
    /\ stream[1] = <<[pred |-> P_COMMA, obj |-> V_QUOTE, dtype |-> EmptyStr],
                     [pred |-> P_NAME, obj |-> V_LINES, dtype |-> DT_STRING],
                     [pred |-> P_NAME, obj |-> V_COMMA, dtype |-> DT_STRING]>>
    /\ clipboard =
           "Display Predicate,Native Predicate,Display Value,Native Value\n"
               \o "Identifier,Identifier,file:///a&b,file:///a&b\n"
               \o "File Name,\"u:a,b#fileName\",\"say \"\"hi\"\"\",\"say \"\"hi\"\"\"\n"
               \o "File Name,p/fileName,\"a\nb\",\"a\nb\"\n"
               \o "File Name,p/fileName,\"a,b\",\"a,b\"\n"

\* ------------------------------------------------------ the open-uri action

\* C26: every activation of open-uri first runs uri_has_handler: when the
\* check fails one message is shown and the launcher is not invoked; when it
\* succeeds the launcher is invoked exactly once, and its failure is shown
\* as one message while the window stays open with its rows; no activation
\* shows more than one message.
C26_CheckedLaunch ==
    [][activations' # activations =>
           LET a == activations'[Len(activations')]
               c == a.ctx
               checked == uri_has_handler(a.uri, env).ok
               shown == Len(dialogs'[c]) - Len(dialogs[c])
           IN  /\ activations' = Append(activations, a)
               /\ shown \in {0, 1}
               /\ \A d \in Ctx \ {c} : dialogs'[d] = dialogs[d]
               /\ ~checked => a.launched = <<>> /\ shown = 1
               /\ checked =>
                      /\ Len(a.launched) = 1
                      /\ shown = IF a.launched[1] THEN 0 ELSE 1
               /\ open[c] /\ open'[c]
               /\ grid'[c] = grid[c] /\ table_data'[c] = table_data[c]]_vars

\* One activation failed its check and launched nothing, another one passed
\* it and its launch failed; the window shows one message for each and is
\* open.
C26_Witness ==
    /\ Len(activations) = 2
    /\ activations[1].launched = <<>>
    /\ activations[2].launched = <<FALSE>>
    /\ Len(dialogs[1]) = 2
    /\ open[1]

\* ------------------------------------------------ the order of the values

\* The values of the triples of st, and of the rows, of predicate p.
ValuesOf(st, p) ==
    LET ts == SelectSeq(st, LAMBDA t : t.pred = p)
    IN  [i \in 1..Len(ts) |-> ts[i].obj]

RowValuesOf(rows, p) ==
    LET rs == SelectSeq(rows, LAMBDA r : r.native_predicate = p)
    IN  [i \in 1..Len(rs) |-> rs[i].native_value]

\* C27: in the rows of a describe the values of each predicate are in the
\* order of their arrival in the stream, the rows of one predicate are
\* contiguous also when its triples were interleaved with others, and the
\* pairs (native predicate, native value) of the rows after the Identifier
\* row are a permutation of the pairs (predicate, value) of the stream.
C27_ArrivalOrder ==
    \A c \in Ctx :
        DescribedOk(c) =>
            LET rows == Tail(table_data[c])
                preds == {stream[c][i].pred : i \in 1..Len(stream[c])}
                           \cup {rows[i].native_predicate : i \in 1..Len(rows)}
            IN  /\ \A p \in preds :
                       RowValuesOf(rows, p) = ValuesOf(stream[c], p)
                /\ \A i, k \in 1..Len(rows) :
                       (i < k /\ rows[i].native_predicate = rows[k].native_predicate)
                           => \A j \in i..k :
                                  rows[j].native_predicate = rows[i].native_predicate
                /\ Len(rows) = Len(stream[c])
                /\ \A i \in 1..Len(rows) :
                       LET e == <<rows[i].native_predicate, rows[i].native_value>>
                       IN  Count(RowEntries(rows), e)
                               = Count(StreamEntries(stream[c]), e)

\* A describe has returned for a stream in which two values of one predicate
\* arrive around a triple of another one: its rows hold the two values next
\* to each other in the order of their arrival.
C27_Witness ==
    \E c \in Ctx :
        /\ DescribedOk(c)
        /\ Len(stream[c]) = 3
        /\ stream[c][1].pred = RDF_TYPE /\ stream[c][1].obj = ID_FILE
        /\ stream[c][2].pred = P_NAME
        /\ stream[c][3].pred = RDF_TYPE /\ stream[c][3].obj = FILEDATAOBJECT
        /\ table_data[c][2].native_value = ID_FILE
        /\ table_data[c][3].native_value = FILEDATAOBJECT
        /\ table_data[c][3].native_predicate = RDF_TYPE
        /\ table_data[c][4].native_predicate = P_NAME

\* ------------------------------------------------- a failing cursor

\* The cursor of window c failed after it had delivered some results.
CursorFailed(c) ==
    /\ pc[c] = "done"
    /\ stream[c] # <<>>
    /\ stream[c][Len(stream[c])] = CURSOR_ERROR

Received(c) == SubSeq(stream[c], 1, Len(stream[c]) - 1)

\* C28: when the cursor fails to advance part-way through the results of a
\* describe or of a backlink query, the failure is the end of the stream:
\* the rows of what was received before are shown, a describe returns them
\* as its result with the header that follows from them alone, and no
\* failure of the connection or of the query is signalled.
C28_CursorFailureEndsStream ==
    \A c \in Ctx :
        CursorFailed(c) =>
            LET got == Received(c)
            IN  /\ dialogs[c] = <<>>
                /\ kind[c] = "subject" =>
                       /\ Len(table_data[c]) = Len(got) + 1
                       /\ Len(grid[c]) = Len(got) + 1
                       /\ RowEntries(Tail(table_data[c]))
                              = StreamEntries(InRowOrder(got))
                       /\ header[c] =
                              IF \E i \in 1..Len(got) : IsTypeTriple(got[i])
                              THEN "File Information" ELSE "Node Information"
                /\ kind[c] = "object" =>
                       /\ Len(grid[c]) = Len(got)
                       /\ \A k \in 1..Len(got) :
                              grid[c][k].native = got[k].subj

\* The cursor of a describe failed after one triple and the cursor of a
\* backlink query after one result; each window shows what it received.
C28_Witness ==
    /\ \E c \in Ctx :
           /\ kind[c] = "subject" /\ CursorFailed(c)
           /\ Len(stream[c]) = 2 /\ Len(table_data[c]) = 2
    /\ \E c \in Ctx :
           /\ kind[c] = "object" /\ CursorFailed(c)
           /\ Len(stream[c]) = 2 /\ Len(grid[c]) = 1

\* ------------------------------------------- the row set while loading

\* The rows a describe of window c that ended with its cursor loop returns:
\* the Identifier row and one row for each triple of its stream.
IsWholeResult(c, rows) ==
    /\ Len(rows) = Len(stream[c]) + 1
    /\ rows[1].native_predicate = IDENTIFIER
    /\ rows[1].native_value = uri[c]
    /\ RowEntries(Tail(rows)) = StreamEntries(InRowOrder(stream[c]))

\* C29: the row set of a window is empty from the creation of the window
\* until its describe completes, and stays empty when the describe fails;
\* it changes in one step only, the one that completes the describe, and
\* then to the whole result.  So a Copy before completion or after a failed
\* describe sets the header record alone on the clipboard, and a Copy at any
\* time sets either the header alone or the header and the whole result,
\* never a part of the result.
C29_WholeOrNothing ==
    /\ [](\A c \in Ctx :
              /\ ~Described(c) => table_data[c] = <<>>
              /\ Described(c) /\ ~DescribedOk(c) => table_data[c] = <<>>
              /\ DescribedOk(c) => IsWholeResult(c, table_data[c]))
    /\ [][/\ \A c \in Ctx :
                 table_data'[c] # table_data[c] =>
                     /\ table_data[c] = <<>>
                     /\ ~Described(c)
                     /\ DescribedOk(c)'
                     /\ IsWholeResult(c, table_data'[c])
          /\ clipboard' # clipboard =>
                 \E c \in Ctx :
                     /\ kind[c] = "subject"
                     /\ UNCHANGED table_data
                     /\ IF DescribedOk(c)
                        THEN /\ IsWholeResult(c, table_data[c])
                             /\ clipboard' =
                                    HeaderLine \o RecordsOf(table_data[c])
                        ELSE clipboard' = HeaderLine]_vars

\* A Copy has been performed while the cursor loop of the describe was
\* running, two triples already folded: the clipboard holds the header only.
C29_Witness ==
    /\ kind[1] = "subject" /\ pc[1] = "next"
    /\ Len(stream[1]) = 2
    /\ rows_vec[1] # <<>>
    /\ table_data[1] = <<>>
    /\ clipboard = HeaderLine

\* ------------------------------------------------------ the header label

\* The subject windows that have been created.
IsSubject(c) == c <= nctx /\ kind[c] = "subject"

HasTypeTriple(st) == \E i \in 1..Len(st) : IsTypeTriple(st[i])

\* C30: the header of a subject window reads "Loading..." from the creation
\* of the window until its describe finishes; from then on it reads "File
\* Information" when the describe returned true and "Node Information"
\* otherwise, also after a failed connection or a failed query; it changes
\* in the finishing step only, and never back.  The flag decides the header
\* alone: the rows are those of the stream, with the type triple or without.
C30_HeaderLabel ==
    /\ [](\A c \in Ctx :
              IsSubject(c) =>
                  /\ ~Described(c) => header[c] = "Loading..."
                  /\ Described(c) =>
                         header[c] = IF HasTypeTriple(stream[c])
                                     THEN "File Information"
                                     ELSE "Node Information"
                  /\ Described(c) /\ ~DescribedOk(c) =>
                         header[c] = "Node Information"
                  /\ DescribedOk(c) =>
                         /\ IsWholeResult(c, table_data[c])
                         /\ Len(grid[c]) = Len(stream[c]) + 1)
    /\ [][\A c \in Ctx :
              (IsSubject(c) /\ header'[c] # header[c]) =>
                  /\ header[c] = "Loading..."
                  /\ ~Described(c)
                  /\ Described(c)'
                  /\ header'[c] \in {"File Information", "Node Information"}
         ]_vars

\* One window reads "File Information" with a row for each of its two
\* triples, one reads "Node Information" after a failure, and one still
\* reads "Loading..." although its loop has folded the type triple.
C30_Witness ==
    /\ \E c \in Ctx :
           /\ DescribedOk(c) /\ header[c] = "File Information"
           /\ Len(stream[c]) = 2 /\ Len(table_data[c]) = 3
    /\ \E c \in Ctx :
           /\ Described(c) /\ dialogs[c] # <<>>
           /\ header[c] = "Node Information"
    /\ \E c \in Ctx :
           /\ IsSubject(c) /\ pc[c] = "next"
           /\ HasTypeTriple(stream[c])
           /\ header[c] = "Loading..."

====
